---- MODULE Spec2Model ----
(***************************************************************************)
(* Model of homework/src/hash_table: the split-ordered lock-free map       *)
(* (split_ordered_list.rs) on top of the growable segment array            *)
(* (growable_array.rs).                                                    *)
(*                                                                         *)
(* Every action is one atomic access to shared memory (a load, a store, a  *)
(* compare-and-swap, a fetch_add/fetch_or) together with the thread-local  *)
(* computation that follows it up to the next shared access.               *)
(*                                                                         *)
(* Further down: hello_server's Cache (cache.rs) and ThreadPool            *)
(* (thread_pool.rs), and OrderedListSet (list_set.rs), each with the       *)
(* threads that use it, in runs of their own.                              *)
(***************************************************************************)
EXTENDS Integers, Sequences, FiniteSets, TLC

VARIABLES
    nodes,     \* the list's heap: nodes[i] = [key, val, next, mark], in link order
    head,      \* List::head, 0 is the null pointer
    buckets,   \* SplitOrderedList::buckets as seen by the map: [alloc, slot]
    size,      \* SplitOrderedList::size
    count,     \* SplitOrderedList::count
    pc,        \* per thread: the shared access it performs next
    op,        \* per thread: the map operation it is executing
    loc,       \* per thread: the locals of find / initialize_bucket / Cursor
    res,       \* per thread: the result of its last completed operation
    opsLeft,   \* operations that may still be started in the current phase
    phase,     \* "solo": thread 1 fills the map alone; then "conc", "seq" or "disj";
               \* "ga", "ga_wide", "cache", "pool", "barrier", "set_seq", "set": the others
    hist,      \* history of the run, read by the properties only
    cache,     \* hello_server::cache::Cache and the threads that call it
    pool,      \* hello_server::thread_pool::ThreadPool, its workers and clients
    set        \* list_set::OrderedListSet and the thread that calls it

vars == <<nodes, head, buckets, size, count, pc, op, loc, res, opsLeft, phase, hist,
          cache, pool, set>>

(***************************************************************************)
(* Bounds of the model.                                                    *)
(***************************************************************************)
\* width of usize in the model (64 in the build)
WordBits == 5
NumThreads == 2
\* keys 0 .. n-1 thread 1 may insert alone before the threads run together
MaxPrefill == 8
\* operations the threads perform together after the prefill
MaxOps == 3
\* operations thread 1 performs after the prefill in a single-threaded run
SeqOps == 4
\* keys thread 1 inserts alone, and calls the threads then share, in the runs
\* that are checked for progress
LivePrefill == 4
LiveOps == 2
\* inserts per thread in the disjoint-insert runs
DisjOps == 3
\* calls of GrowableArray::get the threads make together in the runs of the
\* array alone
GAOps == 3
\* calls of get in a run over the whole index domain, which starts from an
\* empty array
GAWideOps == 1
\* threads that call Cache::get_or_insert_with
NumCallers == 3
\* calls of get_or_insert_with the callers make together
CacheOps == 4
\* worker threads of the ThreadPool, ThreadPool::new(size)
NumWorkers == 3
\* threads that share the ThreadPool and call execute and join
NumClients == 2
\* jobs the clients submit together
PoolJobs == 3
\* calls of ThreadPool::join the clients make together
PoolJoins == 2
\* calls on the OrderedListSet in a single-threaded run
SetOps == 4

Threads == 1 .. NumThreads

(***************************************************************************)
(* usize arithmetic.                                                       *)
(***************************************************************************)
Pow2(n) == 2 ^ n

\* 1 << 63 (split_ordered_list.rs:123,161)
TopBit == Pow2(WordBits - 1)

Wrap(x) == x % Pow2(WordBits)

RECURSIVE RevAcc(_, _, _)
RevAcc(x, n, acc) ==
    IF n = 0 THEN acc ELSE RevAcc(x \div 2, n - 1, acc * 2 + (x % 2))

\* usize::reverse_bits
reverse_bits(x) == RevAcc(x, WordBits, 0)

\* mutant of assert_valid_key: the comparison is off by one
assert_valid_key_loose(key) == key <= TopBit

\* key.leading_zeros() != 0
assert_valid_key(key) == key < TopBit

\* key | mask, for mask = 1 << 63
OrTopBit(key) == IF key < TopBit THEN key + TopBit ELSE key

\* mutant of new_index: the top bit is not forced before the reversal
new_index_plain(key) == reverse_bits(key)

\* find, line 124: ((*key)|mask).reverse_bits()
new_index(key) == reverse_bits(OrTopBit(key))

\* mutant of new_key: the mask is left out
new_key_unmasked(key) == reverse_bits(key)

\* insert, line 162: ((*key)|mask).reverse_bits()
new_key(key) == reverse_bits(OrTopBit(key))

RECURSIVE Halve(_, _)
Halve(parent, index) ==
    IF parent > index THEN Halve(parent \div 2, index) ELSE parent

\* mutant of get_parent: the parent is taken to be the index halved
get_parent_half(index, sz) == index \div 2

get_parent(index, sz) == index - Halve(sz, index)

(***************************************************************************)
(* lockfree::list, the sorted sequence with marked-for-deletion nodes.     *)
(***************************************************************************)
Null == 0
\* Cursor::prev when it is &List::head
HEAD == -1
\* Cursor::prev when it is the temporary of Cursor::from_raw(&Atomic::null(), ..)
DANGLING == -2

None == <<>>
Some(v) == <<v>>

\* the pointer and the mark (tag) held by the Atomic that `prev` refers to
PrevPtr(prev) == IF prev = HEAD THEN head ELSE nodes[prev].next
PrevMark(prev) == IF prev = HEAD THEN FALSE ELSE nodes[prev].mark

\* prev.compare_and_set(curr, _) succeeds: prev holds curr with tag 0
CasOk(prev, curr) == prev # DANGLING /\ PrevPtr(prev) = curr /\ ~PrevMark(prev)

\* the heap and head after prev has been set to `new`
StorePrev(ns, prev, new) ==
    IF prev = HEAD THEN ns ELSE [ns EXCEPT ![prev].next = new]
HeadAfter(prev, new) == IF prev = HEAD THEN new ELSE head

Node(key, val, next) == [key |-> key, val |-> val, next |-> next, mark |-> FALSE]

(***************************************************************************)
(* GrowableArray as the map uses it: indices below 2^SEGMENT_LOGSIZE live  *)
(* in the root segment of height 1.                                        *)
(***************************************************************************)
Slot(i) == IF i \in DOMAIN buckets.slot THEN buckets.slot[i] ELSE Null


(***************************************************************************)
(* Thread state.                                                           *)
(***************************************************************************)
NoLocals ==
    [bsize |-> 0, isize |-> 0, stack |-> <<>>, prev |-> HEAD, curr |-> Null,
     next |-> Null]

Top(stack) == stack[Len(stack)]
Pop(stack) == SubSeq(stack, 1, Len(stack) - 1)

\* mutant of Target: the sentinel key gets the transform of a regular key
TargetMasked(t) ==
    IF loc[t].stack # <<>> THEN new_index(Top(loc[t].stack))
    ELSE new_index(op[t].key)

\* the key the running find_harris_michael searches for: the sentinel key of
\* the bucket being initialised, or the transformed key of the operation
Target(t) ==
    IF loc[t].stack # <<>> THEN reverse_bits(Top(loc[t].stack))
    ELSE new_index(op[t].key)

shared == <<nodes, head, buckets, size, count>>
ctl == <<op, opsLeft, phase>>
\* the components that the map and the array do not touch
rest == <<cache, pool, set>>
out == <<res, hist>>

\* a thread inside a call
Running(t) == pc[t] \notin {"idle", "panic_assert", "panic_unreachable", "panic_overflow"}

(***************************************************************************)
(* The history of the run.                                                 *)
(*   ins   key -> the insert(key, val) that returned Ok(()) and that no    *)
(*         delete(key) has overlapped or followed: its value, the bucket   *)
(*         count its find observed and the node it linked                  *)
(*   seen  per thread: ins[key] as it was when the thread's call began     *)
(*   clean per thread: no delete of its key has run during its call        *)
(*   log   per thread: the calls it completed after the prefill            *)
(*   ref   the reference partial map of a single-threaded run              *)
(*   want  the reference map's result for the call thread 1 is making      *)
(***************************************************************************)
NoHist ==
    [ins |-> <<>>,
     seen |-> [t \in Threads |-> <<>>],
     clean |-> [t \in Threads |-> TRUE],
     log |-> [t \in Threads |-> <<>>],
     ref |-> <<>>,
     want |-> <<"none">>]

Without(f, k) == [x \in DOMAIN f \ {k} |-> f[x]]
With(f, k, v) == [x \in DOMAIN f \cup {k} |-> IF x = k THEN v ELSE f[x]]

RefResult(ref, o) ==
    IF ~assert_valid_key(o.key) THEN <<"panic">>
    ELSE IF o.kind = "insert"
        THEN IF o.key \in DOMAIN ref THEN <<"Err", o.val>> ELSE <<"Ok">>
    ELSE IF o.kind = "delete"
        THEN IF o.key \in DOMAIN ref THEN <<"Ok", ref[o.key]>> ELSE <<"Err">>
    ELSE IF o.key \in DOMAIN ref THEN <<"Some", ref[o.key]>> ELSE <<"None">>

RefAfter(ref, o) ==
    IF ~assert_valid_key(o.key) THEN ref
    ELSE IF o.kind = "insert" /\ o.key \notin DOMAIN ref THEN With(ref, o.key, o.val)
    ELSE IF o.kind = "delete" THEN Without(ref, o.key)
    ELSE ref

HistInvoke(t, o) ==
    [hist EXCEPT
       !.clean = [u \in Threads |->
                    IF u = t
                        THEN ~\E w \in Threads \ {t} :
                                Running(w) /\ op[w].kind = "delete" /\ op[w].key = o.key
                    ELSE IF o.kind = "delete" /\ Running(u) /\ op[u].key = o.key
                        THEN FALSE
                    ELSE @[u]],
       !.seen[t] = IF o.key \in DOMAIN hist.ins THEN <<hist.ins[o.key]>> ELSE <<>>,
       !.ins = IF o.kind = "delete" /\ assert_valid_key(o.key)
                   THEN Without(@, o.key) ELSE @,
       !.ref = IF phase \in {"solo", "seq"} THEN RefAfter(@, o) ELSE @,
       !.want = IF phase \in {"solo", "seq"} THEN RefResult(hist.ref, o) ELSE @]

HistReturn(t, r) ==
    LET o == op[t]
    IN [hist EXCEPT
          !.ins = IF o.kind = "insert" /\ r = <<"Ok">> /\ hist.clean[t]
                      THEN With(@, o.key, [val |-> o.val, bsize |-> loc[t].bsize,
                                           node |-> loc[t].curr])
                      ELSE @,
          !.log[t] = IF phase = "solo" THEN @
                     ELSE Append(@, [op |-> o, res |-> r, bsize |-> loc[t].bsize])]

Goto(t, label) == pc' = [pc EXCEPT ![t] = label]

\* the operation of thread t returns r
Return(t, r) ==
    /\ pc' = [pc EXCEPT ![t] = "idle"]
    /\ res' = [res EXCEPT ![t] = r]
    /\ loc' = [loc EXCEPT ![t] = NoLocals]
    /\ hist' = HistReturn(t, r)

\* the call panics: "assert" (line 138), "unreachable" (lines 153, 173, 203)
\* or "overflow" (line 180, builds with overflow checks)
Panic(t, why) ==
    /\ pc' = [pc EXCEPT ![t] = "panic_" \o why]
    /\ loc' = [loc EXCEPT ![t] = NoLocals]
    /\ UNCHANGED out

\* initialize_bucket returns `cursor` to its caller: the enclosing
\* initialize_bucket (line 89) or find (line 128); both go on to
\* cursor.find_harris_michael
ReturnCursor(t, prev, curr) ==
    /\ loc' = [loc EXCEPT ![t].stack = Pop(@), ![t].prev = prev, ![t].curr = curr]
    /\ Goto(t, "hm")
    /\ UNCHANGED out

(***************************************************************************)
(* lookup / insert / delete: entry.                                        *)
(***************************************************************************)
Invoke(t, o) ==
    /\ pc[t] = "idle"
    /\ opsLeft > 0
    /\ op' = [op EXCEPT ![t] = o]
    /\ opsLeft' = opsLeft - 1
    /\ pc' = [pc EXCEPT ![t] =
                IF assert_valid_key(o.key) THEN "find_size" ELSE "panic_assert"]
    /\ res' = [res EXCEPT ![t] = <<"pending">>]
    /\ hist' = HistInvoke(t, o)
    /\ UNCHANGED <<shared, loc, phase, rest>>

(***************************************************************************)
(* find (lines 116-135) and lookup_bucket (line 55).                       *)
(***************************************************************************)
FindLoadSize(t) ==
    /\ pc[t] = "find_size"
    /\ loc' = [loc EXCEPT ![t].bsize = size]
    /\ Goto(t, "lb_size")
    /\ UNCHANGED <<shared, ctl, rest, out>>

\* mutant of bucket_index: a division where the remainder is meant
bucket_index_div(key, bucket_size) == key \div bucket_size

\* line 122: (*key) % bucket_size
bucket_index(key, bucket_size) == key % bucket_size

LookupBucket(t) ==
    /\ pc[t] = "lb_size"
    /\ loc' = [loc EXCEPT ![t].isize = size,
                          ![t].stack = <<bucket_index(op[t].key, loc[t].bsize)>>]
    /\ Goto(t, "ib_get")
    /\ UNCHANGED <<shared, ctl, rest, out>>

(***************************************************************************)
(* initialize_bucket (lines 70-112).                                       *)
(***************************************************************************)
\* line 72: self.buckets.get(index, guard)
BucketGet(t) ==
    /\ pc[t] = "ib_get"
    /\ buckets' = [buckets EXCEPT !.alloc = TRUE]
    /\ Goto(t, "ib_load")
    /\ UNCHANGED <<nodes, head, size, count, ctl, rest, loc, out>>

\* lines 82-90: load the slot; non-null: the cursor is built from it
BucketLoad(t) ==
    /\ pc[t] = "ib_load"
    /\ LET index == Top(loc[t].stack)
           sentinel_ptr == Slot(index)
       IN IF sentinel_ptr # Null
              THEN ReturnCursor(t, DANGLING, sentinel_ptr)
          ELSE IF index # 0
              THEN /\ loc' = [loc EXCEPT ![t].stack =
                                Append(@, get_parent(index, loc[t].isize))]
                   /\ Goto(t, "ib_get")
                   /\ UNCHANGED out
          ELSE /\ Goto(t, "ib_head")
               /\ UNCHANGED <<loc, out>>
    /\ UNCHANGED <<shared, ctl, rest>>

\* line 92: self.list.head(guard)
ListHead(t) ==
    /\ pc[t] = "ib_head"
    /\ loc' = [loc EXCEPT ![t].prev = HEAD, ![t].curr = head]
    /\ Goto(t, "hm")
    /\ UNCHANGED <<shared, ctl, rest, out>>

\* mutant of SentinelInsert: the sentinel is linked without comparing prev
\* with curr
SentinelInsertBlind(t) ==
    /\ pc[t] = "ib_insert"
    /\ LET l == loc[t]
           id == Len(nodes) + 1
       IN IF l.prev # DANGLING
              THEN /\ nodes' = Append(StorePrev(nodes, l.prev, id),
                                      Node(Target(t), None, l.curr))
                   /\ head' = HeadAfter(l.prev, id)
                   /\ loc' = [loc EXCEPT ![t].curr = id]
                   /\ Goto(t, "ib_store")
              ELSE /\ Goto(t, "ib_load")
                   /\ UNCHANGED <<nodes, head, loc>>
    /\ UNCHANGED <<buckets, size, count, ctl, rest, out>>

\* lines 102-108: cursor.insert(sentinel_node)
SentinelInsert(t) ==
    /\ pc[t] = "ib_insert"
    /\ LET l == loc[t]
           id == Len(nodes) + 1
       IN IF CasOk(l.prev, l.curr)
              THEN /\ nodes' = Append(StorePrev(nodes, l.prev, id),
                                      Node(Target(t), None, l.curr))
                   /\ head' = HeadAfter(l.prev, id)
                   /\ loc' = [loc EXCEPT ![t].curr = id]
                   /\ Goto(t, "ib_store")
              ELSE /\ Goto(t, "ib_load")
                   /\ UNCHANGED <<nodes, head, loc>>
    /\ UNCHANGED <<buckets, size, count, ctl, rest, out>>

\* mutant of BucketStore: the slot receives the cursor's prev
BucketStorePrev(t) ==
    /\ pc[t] = "ib_store"
    /\ buckets' = [buckets EXCEPT !.slot =
                     [i \in DOMAIN @ \cup {Top(loc[t].stack)} |->
                        IF i = Top(loc[t].stack) THEN loc[t].prev ELSE @[i]]]
    /\ ReturnCursor(t, loc[t].prev, loc[t].curr)
    /\ UNCHANGED <<nodes, head, size, count, ctl, rest>>

\* line 105: bucket_ptr.store(cursor.curr())
BucketStore(t) ==
    /\ pc[t] = "ib_store"
    /\ buckets' = [buckets EXCEPT !.slot =
                     [i \in DOMAIN @ \cup {Top(loc[t].stack)} |->
                        IF i = Top(loc[t].stack) THEN loc[t].curr ELSE @[i]]]
    /\ ReturnCursor(t, loc[t].prev, loc[t].curr)
    /\ UNCHANGED <<nodes, head, size, count, ctl, rest>>


(***************************************************************************)
(* Cursor::find_harris_michael, as called at lines 94 and 129.             *)
(***************************************************************************)
\* mutant of FindReturns: insert goes on to splice although the key was found
FindReturnsDup(t, found) ==
    LET l == loc[t]
        o == op[t]
    IN IF l.stack # <<>>
           THEN IF found
                    THEN ReturnCursor(t, l.prev, l.curr)
                    ELSE Goto(t, "ib_insert") /\ UNCHANGED <<loc, out>>
       ELSE IF o.kind = "lookup"
           THEN IF ~found THEN Return(t, <<"None">>)
                ELSE IF nodes[l.curr].val = None THEN Panic(t, "unreachable")
                ELSE Return(t, <<"Some", nodes[l.curr].val[1]>>)
       ELSE IF o.kind = "insert"
           THEN Goto(t, "ins_cas") /\ UNCHANGED <<loc, out>>
       ELSE IF ~found
                THEN Return(t, <<"Err">>)
                ELSE Goto(t, "del_mark") /\ UNCHANGED <<loc, out>>

\* find_harris_michael returned Ok(found)
FindReturns(t, found) ==
    LET l == loc[t]
        o == op[t]
    IN IF l.stack # <<>>
           \* initialize_bucket, lines 94-101
           THEN IF found
                    THEN ReturnCursor(t, l.prev, l.curr)
                    ELSE Goto(t, "ib_insert") /\ UNCHANGED <<loc, out>>
       ELSE IF o.kind = "lookup"
           \* lines 149-156
           THEN IF ~found THEN Return(t, <<"None">>)
                ELSE IF nodes[l.curr].val = None THEN Panic(t, "unreachable")
                ELSE Return(t, <<"Some", nodes[l.curr].val[1]>>)
       ELSE IF o.kind = "insert"
           \* lines 167-175
           THEN IF found
                    THEN Return(t, <<"Err", o.val>>)
                    ELSE Goto(t, "ins_cas") /\ UNCHANGED <<loc, out>>
           \* lines 194-196
       ELSE IF ~found
                THEN Return(t, <<"Err">>)
                ELSE Goto(t, "del_mark") /\ UNCHANGED <<loc, out>>

\* find_harris_michael returned Err(()): the loops at 81 and 127 go round
FindRestarts(t) ==
    /\ Goto(t, IF loc[t].stack # <<>> THEN "ib_load" ELSE "lb_size")
    /\ UNCHANGED <<loc, out>>

\* one iteration: load curr.next, then compare curr.key with the key sought
HarrisMichael(t) ==
    /\ pc[t] = "hm"
    /\ LET l == loc[t]
           c == l.curr
       IN IF c = Null THEN FindReturns(t, FALSE)
          ELSE IF nodes[c].mark
              THEN /\ loc' = [loc EXCEPT ![t].next = nodes[c].next]
                   /\ Goto(t, "hm_cas")
                   /\ UNCHANGED out
          ELSE IF nodes[c].key < Target(t)
              THEN /\ loc' = [loc EXCEPT ![t].prev = c, ![t].curr = nodes[c].next]
                   /\ UNCHANGED <<pc, out>>
          ELSE FindReturns(t, nodes[c].key = Target(t))
    /\ UNCHANGED <<shared, ctl, rest>>

\* curr is marked: prev.compare_and_set(curr, next) unlinks it
HarrisMichaelUnlink(t) ==
    /\ pc[t] = "hm_cas"
    /\ LET l == loc[t]
       IN IF CasOk(l.prev, l.curr)
              THEN /\ nodes' = StorePrev(nodes, l.prev, l.next)
                   /\ head' = HeadAfter(l.prev, l.next)
                   /\ loc' = [loc EXCEPT ![t].curr = l.next]
                   /\ Goto(t, "hm")
                   /\ UNCHANGED out
              ELSE /\ FindRestarts(t)
                   /\ UNCHANGED <<nodes, head>>
    /\ UNCHANGED <<buckets, size, count, ctl, rest>>

(***************************************************************************)
(* insert (lines 159-188).                                                 *)
(***************************************************************************)
\* mutant of InsertCas: prev is stored to without comparing it with curr
InsertCasStore(t) ==
    /\ pc[t] = "ins_cas"
    /\ LET l == loc[t]
           id == Len(nodes) + 1
       IN IF l.prev # DANGLING
              THEN /\ nodes' = Append(StorePrev(nodes, l.prev, id),
                                      Node(new_key(op[t].key), Some(op[t].val),
                                           l.curr))
                   /\ head' = HeadAfter(l.prev, id)
                   /\ loc' = [loc EXCEPT ![t].curr = id]
                   /\ Goto(t, "ins_count")
              ELSE /\ Goto(t, "find_size")
                   /\ UNCHANGED <<nodes, head, loc>>
    /\ UNCHANGED <<buckets, size, count, ctl, rest, out>>

\* line 176: cursor.insert(new_node)
InsertCas(t) ==
    /\ pc[t] = "ins_cas"
    /\ LET l == loc[t]
           id == Len(nodes) + 1
       IN IF CasOk(l.prev, l.curr)
              THEN /\ nodes' = Append(StorePrev(nodes, l.prev, id),
                                      Node(new_key(op[t].key), Some(op[t].val),
                                           l.curr))
                   /\ head' = HeadAfter(l.prev, id)
                   /\ loc' = [loc EXCEPT ![t].curr = id]
                   /\ Goto(t, "ins_count")
              ELSE /\ Goto(t, "find_size")
                   /\ UNCHANGED <<nodes, head, loc>>
    /\ UNCHANGED <<buckets, size, count, ctl, rest, out>>

\* mutant of InsertCount: the threshold is tested on old_count
InsertCountOld(t) ==
    /\ pc[t] = "ins_count"
    /\ count' = Wrap(count + 1)
    /\ IF count + 1 >= Pow2(WordBits)
           THEN \E checks \in BOOLEAN :
                   IF checks THEN Panic(t, "overflow")
                   ELSE Return(t, <<"Ok">>)
       ELSE IF count > loc[t].bsize * 2
           THEN Goto(t, "ins_resize") /\ UNCHANGED <<loc, out>>
           ELSE Return(t, <<"Ok">>)
    /\ UNCHANGED <<nodes, head, buckets, size, ctl, rest>>

\* lines 179-180: fetch_add, then the threshold test on old_count + 1
InsertCount(t) ==
    /\ pc[t] = "ins_count"
    /\ count' = Wrap(count + 1)
    /\ IF count + 1 >= Pow2(WordBits)
           \* old_count + 1 overflows: a panic with overflow checks, 0 without
           THEN \E checks \in BOOLEAN :
                   IF checks THEN Panic(t, "overflow")
                   ELSE Return(t, <<"Ok">>)
       ELSE IF count + 1 > loc[t].bsize * 2
           THEN Goto(t, "ins_resize") /\ UNCHANGED <<loc, out>>
           ELSE Return(t, <<"Ok">>)
    /\ UNCHANGED <<nodes, head, buckets, size, ctl, rest>>

\* mutant of InsertResize: the size is doubled without comparing it with the
\* size the insert observed
InsertResizeAlways(t) ==
    /\ pc[t] = "ins_resize"
    /\ size' = 2 * size
    /\ Return(t, <<"Ok">>)
    /\ UNCHANGED <<nodes, head, buckets, count, ctl, rest>>

\* line 181: self.size.compare_and_swap(size, size * 2)
InsertResize(t) ==
    /\ pc[t] = "ins_resize"
    /\ size' = IF size = loc[t].bsize THEN 2 * loc[t].bsize ELSE size
    /\ Return(t, <<"Ok">>)
    /\ UNCHANGED <<nodes, head, buckets, count, ctl, rest>>

(***************************************************************************)
(* delete (lines 190-208) with Cursor::delete.                             *)
(***************************************************************************)
\* mutant of DeleteRetry: the Err(()) of cursor.delete is taken for its Ok
DeleteRetryAsOk(t) == Goto(t, "del_count")

\* line 198: Err(()) => continue, the loop at line 192 calls find again
DeleteRetry(t) == Goto(t, "find_size")

\* Cursor::delete: curr.next.fetch_or(1); already marked: Err(())
DeleteMark(t) ==
    /\ pc[t] = "del_mark"
    /\ LET c == loc[t].curr
       IN IF nodes[c].mark
              THEN /\ DeleteRetry(t)
                   /\ UNCHANGED <<nodes, loc>>
              ELSE /\ nodes' = [nodes EXCEPT ![c].mark = TRUE]
                   /\ loc' = [loc EXCEPT ![t].next = nodes[c].next]
                   /\ Goto(t, "del_unlink")
    /\ UNCHANGED <<head, buckets, size, count, ctl, rest, out>>

\* Cursor::delete: prev.compare_and_set(curr, next), its failure is ignored
DeleteUnlink(t) ==
    /\ pc[t] = "del_unlink"
    /\ LET l == loc[t]
       IN IF CasOk(l.prev, l.curr)
              THEN /\ nodes' = StorePrev(nodes, l.prev, l.next)
                   /\ head' = HeadAfter(l.prev, l.next)
              ELSE UNCHANGED <<nodes, head>>
    /\ Goto(t, "del_count")
    /\ UNCHANGED <<buckets, size, count, ctl, rest, loc, out>>

\* mutant of DeleteCount: the fetch_sub is left out
DeleteCountKept(t) ==
    /\ pc[t] = "del_count"
    /\ count' = count
    /\ IF nodes[loc[t].curr].val = None THEN Panic(t, "unreachable")
       ELSE Return(t, <<"Ok", nodes[loc[t].curr].val[1]>>)
    /\ UNCHANGED <<nodes, head, buckets, size, ctl, rest>>

\* lines 200-204: fetch_sub, then the removed value is returned
DeleteCount(t) ==
    /\ pc[t] = "del_count"
    /\ count' = Wrap(count - 1)
    /\ IF nodes[loc[t].curr].val = None THEN Panic(t, "unreachable")
       ELSE Return(t, <<"Ok", nodes[loc[t].curr].val[1]>>)
    /\ UNCHANGED <<nodes, head, buckets, size, ctl, rest>>

(***************************************************************************)
(* The workload.  Thread 1 first inserts the keys n-1, .., 0 alone, for    *)
(* some n <= MaxPrefill; then the threads share MaxOps calls on ValidKeys. *)
(***************************************************************************)
\* a key of the prefill, a key whose bucket changes at each doubling, a key
\* that no prefill holds
ValidKeys == {1, 6, 9}
\* and, in the single-threaded runs, a key with the top bit set
OpKeys == ValidKeys \cup {TopBit}
OpKinds == {"lookup", "insert", "delete"}

NoOp == [kind |-> "none", key |-> 0, val |-> 0]

Prefill ==
    /\ phase = "solo"
    /\ Invoke(1, [kind |-> "insert", key |-> opsLeft - 1, val |-> 0])

StartThreads ==
    /\ phase = "solo"
    /\ pc[1] = "idle"
    /\ opsLeft = 0
    /\ phase' = "conc"
    /\ opsLeft' = MaxOps
    /\ UNCHANGED <<shared, pc, op, loc, out, rest>>

Call(t) ==
    /\ phase = "conc"
    /\ \E kind \in OpKinds, key \in ValidKeys :
          Invoke(t, [kind |-> kind, key |-> key, val |-> t])

FindStep(t) ==
    \/ FindLoadSize(t) \/ LookupBucket(t)
    \/ BucketGet(t) \/ BucketLoad(t) \/ ListHead(t)
    \/ SentinelInsert(t) \/ BucketStore(t)
    \/ HarrisMichael(t)

InsertStep(t) == InsertCas(t) \/ InsertCount(t) \/ InsertResize(t)

DeleteStep(t) == DeleteMark(t) \/ DeleteUnlink(t) \/ DeleteCount(t)

Step(t) == FindStep(t) \/ HarrisMichaelUnlink(t) \/ InsertStep(t) \/ DeleteStep(t)

(***************************************************************************)
(* The other components of the repository, as constructed.  A run of the   *)
(* map or of the array leaves them alone.                                  *)
(***************************************************************************)
Callers == 1 .. NumCallers
CacheKeys == {1, 2}

\* Cache::default() (cache.rs:8-12): an unlocked RwLock around an empty map
NewCache ==
    [readers |-> {},                        \* holders of inner.read()
     writer |-> 0,                          \* holder of inner.write(), 0: none
     inner |-> <<>>,                        \* key -> [owner, val], val: None or <<v>>
     pc |-> [c \in Callers |-> "idle"],
     key |-> [c \in Callers |-> 0],
     got |-> [c \in Callers |-> <<"none">>],
     ran |-> [k \in CacheKeys |-> 0],       \* invocations of a closure for k
     calls |-> CacheOps]

Workers == 1 .. NumWorkers
Clients == 1 .. NumClients

\* ThreadPool::new(NumWorkers) (thread_pool.rs:75-117): an empty channel, job
\* count 0, every worker about to call recv
NewPool ==
    [count |-> 0,                              \* ThreadPoolInner::job_count
     queue |-> <<>>,                           \* jobs in the channel, oldest first
     open |-> TRUE,                            \* job_sender is Some and not dropped
     wpc |-> [w \in Workers |-> "recv"],
     wjob |-> [w \in Workers |-> 0],           \* the job a worker has received
     cpc |-> [c \in Clients |-> "idle"],
     cjob |-> [c \in Clients |-> 0],           \* the job a client is sending
     arrived |-> 0,                            \* Barrier: threads that called wait
     drop |-> "alive",                         \* "alive", "joining", "dropped"
     joined |-> 0,                             \* workers whose JoinHandle was joined
     joins |-> PoolJoins,
     done |-> <<>>,                            \* per job: times its body has run
     returned |-> {},                          \* jobs whose execute has returned
     seen |-> [c \in Clients |-> {}],          \* `returned` when c last called join
     left |-> 0]                               \* jobs in the channel when it was closed

SetKeys == {1, 2, 3}

\* OrderedListSet::new() (list_set.rs:68-72): a null head, unlocked
NewSet ==
    [nodes |-> <<>>,                           \* heap of Node: [data, next, freed]
     head |-> 0,
     lock |-> <<>>,                            \* owner of node i's `next` mutex
     headlock |-> 0,                           \* owner of the `head` mutex
     tpc |-> [t \in Threads |-> "idle"],
     call |-> [t \in Threads |-> <<"none">>],  \* <<method, key>>
     cur |-> [t \in Threads |-> 0],            \* Cursor.0 / Iter.0: 0 guards head
     found |-> [t \in Threads |-> FALSE],
     seq |-> [t \in Threads |-> <<>>],         \* what Iter::next has yielded
     res |-> [t \in Threads |-> <<"none">>],
     want |-> [t \in Threads |-> <<"none">>],  \* the reference set's answer
     ref |-> {},                               \* the reference set
     ops |-> SetOps]

InitRest ==
    /\ cache = NewCache
    /\ pool = NewPool
    /\ set = NewSet

InitMap ==
    /\ InitRest
    /\ nodes = <<>>
    /\ head = Null
    /\ buckets = [alloc |-> FALSE, slot |-> <<>>]
    /\ size = 2
    /\ count = 0
    /\ pc = [t \in Threads |-> "idle"]
    /\ op = [t \in Threads |-> NoOp]
    /\ loc = [t \in Threads |-> NoLocals]
    /\ res = [t \in Threads |-> <<"none">>]
    /\ hist = NoHist

Init ==
    /\ InitMap
    /\ phase = "solo"
    /\ opsLeft \in 0 .. MaxPrefill

Next ==
    \/ Prefill
    \/ StartThreads
    \/ \E t \in Threads : Call(t)
    \/ \E t \in Threads : Step(t)

Spec == Init /\ [][Next]_vars

(***************************************************************************)
(* Progress.  On the empty map, or after thread 1 has inserted LivePrefill *)
(* keys alone, the threads share LiveOps calls.  Thread 2 is scheduled     *)
(* fairly; thread 1 may stop for ever at any point of a call.              *)
(***************************************************************************)
InitLive ==
    /\ InitMap
    /\ phase = "solo"
    /\ opsLeft \in {0, LivePrefill}

StartLive ==
    /\ phase = "solo"
    /\ pc[1] = "idle"
    /\ opsLeft = 0
    /\ phase' = "conc"
    /\ opsLeft' = LiveOps
    /\ UNCHANGED <<shared, pc, op, loc, out, rest>>

NextLive ==
    \/ Prefill
    \/ StartLive
    \/ \E t \in Threads : Call(t)
    \/ \E t \in Threads : Step(t)

SpecLive == InitLive /\ [][NextLive]_vars /\ WF_vars(Step(2))

(***************************************************************************)
(* Single-threaded runs: after the prefill thread 1 makes SeqOps calls.    *)
(***************************************************************************)
StartSeq ==
    /\ phase = "solo"
    /\ pc[1] = "idle"
    /\ opsLeft = 0
    /\ phase' = "seq"
    /\ opsLeft' = SeqOps
    /\ UNCHANGED <<shared, pc, op, loc, out, rest>>

CallSeq ==
    /\ phase = "seq"
    /\ \E kind \in OpKinds, key \in OpKeys, val \in {1, 2} :
          /\ kind # "insert" => val = 1
          /\ Invoke(1, [kind |-> kind, key |-> key, val |-> val])

\* alone, a thread never finds a marked node that is still linked nor loses
\* a compare-and-swap, so HarrisMichaelUnlink is never enabled
NextSeq ==
    \/ Prefill
    \/ StartSeq
    \/ CallSeq
    \/ FindStep(1) \/ InsertStep(1) \/ DeleteStep(1)

SpecSeq == Init /\ [][NextSeq]_vars


(***************************************************************************)
(* Disjoint inserts: on the empty map every thread inserts DisjOps keys of *)
(* its own, one after the other, and then looks up a key whose insert has  *)
(* returned.                                                               *)
(***************************************************************************)
\* the i-th key of thread t and the value it inserts with it
DisjKey(t, i) == (t - 1) + NumThreads * (i - 1)
DisjVal(t, i) == 10 * t + i

DisjCall(t) ==
    /\ phase = "disj"
    /\ LET i == Len(hist.log[t]) + 1
       IN IF i <= DisjOps
              THEN Invoke(t, [kind |-> "insert", key |-> DisjKey(t, i),
                              val |-> DisjVal(t, i)])
              ELSE /\ i = DisjOps + 1
                   /\ \E k \in DOMAIN hist.ins :
                         Invoke(t, [kind |-> "lookup", key |-> k, val |-> 0])

InitDisj ==
    /\ InitMap
    /\ phase = "disj"
    /\ opsLeft = NumThreads * (DisjOps + 1)

\* no delete runs, so no node is ever marked and HarrisMichaelUnlink,
\* DeleteStep are never enabled
NextDisj ==
    \/ \E t \in Threads : DisjCall(t)
    \/ \E t \in Threads : FindStep(t) \/ InsertStep(t)

SpecDisj == InitDisj /\ [][NextDisj]_vars

(***************************************************************************)
(* GrowableArray (growable_array.rs) on its own.  In these runs `buckets`  *)
(* holds the array itself: its root word and the heap of the objects that  *)
(* were allocated, segments and the elements stored through leaf slots.    *)
(* A word is the usize kept in root or in a segment slot: 0, or the        *)
(* address of an object with a tag in the bits the alignment leaves free.  *)
(* A segment's inner array is kept sparse: an absent offset holds 0.       *)
(***************************************************************************)
SEGMENT_LOGSIZE == 10
\* line 144: [AtomicUsize; 1 << SEGMENT_LOGSIZE]
SegLen == Pow2(SEGMENT_LOGSIZE)
\* the alignment of Segment, an array of AtomicUsize: three tag bits
Align == 8

Ptr(obj, tag) == Align * obj + (tag % Align)
Raw(word) == word \div Align
Tag(word) == word % Align

\* Segment::new() (lines 147-153) and an element a caller stores; `frees`
\* counts how often the object was released
Segment(inner, frees) == [seg |-> TRUE, inner |-> inner, frees |-> frees]
Element == [seg |-> FALSE, inner |-> <<>>, frees |-> 0]

\* seg.deref() is defined: the word points to a segment that was not released
Valid(word) ==
    /\ Raw(word) \in DOMAIN buckets.heap
    /\ buckets.heap[Raw(word)].seg
    /\ buckets.heap[Raw(word)].frees = 0

\* the word in slot `off` of the segment at `word`
Inner(word, off) ==
    LET inner == buckets.heap[Raw(word)].inner
    IN IF off \in DOMAIN inner THEN inner[off] ELSE 0

\* line 228: 64 - index.leading_zeros()
RECURSIVE bit_num(_)
bit_num(index) == IF index = 0 THEN 0 ELSE 1 + bit_num(index \div 2)

\* the width of usize on the targets that line 228 is written for
UsizeBits == 64

\* An index is a usize, kept as its digits in base 2^10 with the lowest digit
\* first and no zero as the highest digit: <<>> is 0, <<0, 1>> is 2^10.

\* lines 228 and 238-244: bit_num is 64 - index.leading_zeros()
bit_height(index) ==
    LET top == Len(index)
        bits == IF top = 0 THEN 0 ELSE 10 * (top - 1) + bit_num(index[top])
    IN IF bits % 10 = 0 THEN bits \div 10
       ELSE (bits \div 10) + 1

\* line 268: two.pow(10 * root_height) does not fit a usize
pow_overflows(root_height) == 10 * root_height >= UsizeBits

\* lines 268-270: (currIndex & max_bit) >> (10 * (root_height - 1)), the
\* digit of the layer; with a max_bit that has wrapped to all ones, too
new_slot(currIndex, root_height) ==
    IF root_height \in DOMAIN currIndex THEN currIndex[root_height] ELSE 0

GALocals == [root |-> 0, height |-> 0, curr_seg |-> 0, root_height |-> 0,
             stack |-> <<>>]

\* the indices the threads ask for: the first and the last slot of the first
\* leaf, the first index that needs height 2 and the first that needs 3
GAIndices == {<<>>, <<SegLen - 1>>, <<0, 1>>, <<0, 0, 1>>}

\* the indices of the runs over the whole domain: 0, 2^60, which is the first
\* index that needs 7 layers, and 2^63 - 1
GAWide ==
    {<<>>, <<0, 0, 0, 0, 0, 0, 1>>,
     <<SegLen - 1, SegLen - 1, SegLen - 1, SegLen - 1, SegLen - 1, SegLen - 1, 7>>}

\* a dereference of a word that points to no live segment
Undefined(t) ==
    /\ pc' = [pc EXCEPT ![t] = "ub"]
    /\ UNCHANGED <<shared, ctl, rest, loc, out>>

\* a thread calls get(index) to store a new element through the slot or to
\* load the slot
GaCall(t) ==
    /\ phase \in {"ga", "ga_wide"}
    /\ pc[t] = "idle"
    /\ opsLeft > 0
    /\ \E kind \in {"store", "load"},
          index \in IF phase = "ga" THEN GAIndices ELSE GAWide :
          op' = [op EXCEPT ![t] = [kind |-> kind, key |-> index, val |-> 0]]
    /\ opsLeft' = opsLeft - 1
    /\ pc' = [pc EXCEPT ![t] = "ga_root"]
    /\ loc' = [loc EXCEPT ![t] = GALocals]
    /\ res' = [res EXCEPT ![t] = <<"pending">>]
    /\ UNCHANGED <<shared, phase, hist, rest>>

\* lines 229-237: a new segment is allocated and installed as the root with
\* tag 1 if the root is null; if it is not, the segment is dropped with the
\* error of the compare-and-set
GetRoot(t) ==
    /\ pc[t] = "ga_root"
    /\ LET new == Ptr(Len(buckets.heap) + 1, 1)
           won == buckets.root = 0
           root == IF won THEN new ELSE buckets.root
       IN /\ buckets' = [root |-> root,
                         heap |-> Append(buckets.heap,
                                         Segment(<<>>, IF won THEN 0 ELSE 1))]
          /\ loc' = [loc EXCEPT ![t].root = root, ![t].height = Tag(root)]
    /\ Goto(t, "ga_grow")
    /\ UNCHANGED <<nodes, head, size, count, ctl, rest, out>>

\* mutant of GetGrow: the new root does not get the old root in slot 0
GetGrowEmpty(t) ==
    /\ pc[t] = "ga_grow"
    /\ LET l == loc[t]
           next == Ptr(Len(buckets.heap) + 1, l.height + 1)
           won == buckets.root = l.root
           root == IF won THEN next ELSE buckets.root
       IN IF l.height < bit_height(op[t].key)
              THEN /\ buckets' =
                        [root |-> root,
                         heap |-> Append(buckets.heap,
                                         Segment(<<>>, IF won THEN 0 ELSE 1))]
                   /\ loc' = [loc EXCEPT ![t].root = root, ![t].height = Tag(root)]
                   /\ UNCHANGED pc
              ELSE /\ loc' = [loc EXCEPT ![t].curr_seg = l.root,
                                         ![t].root_height = Tag(l.root)]
                   /\ Goto(t, "ga_descend")
                   /\ UNCHANGED buckets
    /\ UNCHANGED <<nodes, head, size, count, ctl, rest, out>>

\* lines 246-265, one turn of the loop: while the root is lower than the
\* index needs, a new segment with the root word in slot 0 is installed as
\* the root with tag height + 1, or dropped if the root has changed
GetGrow(t) ==
    /\ pc[t] = "ga_grow"
    /\ LET l == loc[t]
           next == Ptr(Len(buckets.heap) + 1, l.height + 1)
           won == buckets.root = l.root
           root == IF won THEN next ELSE buckets.root
       IN IF l.height < bit_height(op[t].key)
              THEN /\ buckets' =
                        [root |-> root,
                         heap |-> Append(buckets.heap,
                                         Segment(With(<<>>, 0, l.root),
                                                 IF won THEN 0 ELSE 1))]
                   /\ loc' = [loc EXCEPT ![t].root = root, ![t].height = Tag(root)]
                   /\ UNCHANGED pc
              ELSE /\ loc' = [loc EXCEPT ![t].curr_seg = l.root,
                                         ![t].root_height = Tag(l.root)]
                   /\ Goto(t, "ga_descend")
                   /\ UNCHANGED buckets
    /\ UNCHANGED <<nodes, head, size, count, ctl, rest, out>>

\* the slot get returns, and the height of the root it started from
GetReturns(t, seg, off) ==
    /\ pc' = [pc EXCEPT ![t] = "ga_use"]
    /\ res' = [res EXCEPT ![t] = <<"slot", seg, off>>]
    /\ hist' = [hist EXCEPT !.ins = IF op[t].key \in DOMAIN @ THEN @
                                    ELSE With(@, op[t].key, <<seg, off>>)]
    /\ UNCHANGED <<shared, ctl, rest, loc>>

\* lines 266-291, one turn of the loop: above the leaves a new segment is
\* allocated and installed in the slot if the slot holds 0, or released if
\* it does not; at the leaves the slot is returned.  Where the power of line
\* 268 does not fit a usize, a build with overflow checks panics there and a
\* build without them goes on with the wrapped mask
GetDescend(t) ==
    /\ pc[t] = "ga_descend"
    /\ LET l == loc[t]
           slot_index == new_slot(op[t].key, l.root_height)
           val == Ptr(Len(buckets.heap) + 1, 0)
       IN IF ~Valid(l.curr_seg) THEN Undefined(t)
          ELSE \E panics \in {pow_overflows(l.root_height), FALSE} :
          IF panics THEN Panic(t, "overflow") /\ UNCHANGED <<shared, ctl, rest>>
          ELSE IF l.root_height > 1
              THEN LET usize_zero == Inner(l.curr_seg, slot_index)
                   IN /\ IF usize_zero = 0
                             THEN /\ buckets' =
                                       [buckets EXCEPT !.heap =
                                          Append([@ EXCEPT ![Raw(l.curr_seg)].inner =
                                                     With(@, slot_index, val)],
                                                 Segment(<<>>, 0))]
                                  /\ loc' = [loc EXCEPT
                                               ![t].curr_seg = val,
                                               ![t].root_height = @ - 1]
                             ELSE /\ buckets' =
                                       [buckets EXCEPT !.heap =
                                          Append(@, Segment(<<>>, 1))]
                                  /\ loc' = [loc EXCEPT
                                               ![t].curr_seg = usize_zero,
                                               ![t].root_height = @ - 1]
                      /\ UNCHANGED <<nodes, head, size, count, ctl, rest, pc, out>>
              ELSE GetReturns(t, Raw(l.curr_seg), slot_index)

\* the caller uses the slot: it stores the address of a new element or loads
\* the slot, as initialize_bucket does with the slot of a bucket
GaUse(t) ==
    /\ pc[t] = "ga_use"
    /\ LET seg == res[t][2]
           off == res[t][3]
           i == op[t].key
           elem == Ptr(Len(buckets.heap) + 1, 0)
           last == IF i \in DOMAIN hist.ref THEN hist.ref[i] ELSE 0
           got == IF op[t].kind = "store" THEN <<"stored", elem>>
                  ELSE <<"loaded", Inner(Ptr(seg, 0), off)>>
       IN /\ IF op[t].kind = "store"
                 THEN buckets' = [buckets EXCEPT !.heap =
                                     Append([@ EXCEPT ![seg].inner = With(@, off, elem)],
                                            Element)]
                 ELSE UNCHANGED buckets
          /\ res' = [res EXCEPT ![t] = got]
          /\ hist' = [hist EXCEPT
                        !.ref = IF op[t].kind = "store" THEN With(@, i, elem) ELSE @,
                        !.log[t] = Append(@, [op |-> op[t], res |-> got,
                                              want |-> last,
                                              bsize |-> loc[t].height])]
    /\ pc' = [pc EXCEPT ![t] = "idle"]
    /\ loc' = [loc EXCEPT ![t] = NoLocals]
    /\ UNCHANGED <<nodes, head, size, count, ctl, rest>>

\* the array is dropped when no thread uses it any more; thread 1 runs drop
StartDrop ==
    /\ phase = "ga"
    /\ \A t \in Threads : pc[t] = "idle"
    /\ phase' = "drop"
    /\ pc' = [pc EXCEPT ![1] = "drop_root"]
    /\ loc' = [loc EXCEPT ![1] = GALocals]
    /\ UNCHANGED <<shared, op, opsLeft, out, rest>>

\* lines 179-183: drop_seg(seg, seg.tag()) unless the root is null
DropRoot ==
    /\ pc[1] = "drop_root"
    /\ IF Raw(buckets.root) = 0
           THEN Goto(1, "dropped") /\ UNCHANGED loc
           ELSE /\ loc' = [loc EXCEPT ![1].stack =
                              <<[seg |-> buckets.root, height |-> Tag(buckets.root),
                                 index |-> 0]>>]
                /\ Goto(1, "drop_seg")
    /\ UNCHANGED <<shared, ctl, rest, out>>

\* the frame of drop_seg that is running, its segment's slots from `index`
\* on that hold a non-null word
DropFrame == Top(loc[1].stack)
DropRest ==
    {off \in DOMAIN buckets.heap[Raw(DropFrame.seg)].inner :
        /\ off >= DropFrame.index
        /\ Raw(Inner(DropFrame.seg, off)) # 0}
DropAt == CHOOSE off \in DropRest : \A o \in DropRest : off <= o

\* mutant of DropSeg: drop_seg is called on the non-null slots of a leaf too
DropSegDeep ==
    /\ pc[1] = "drop_seg"
    /\ IF ~Valid(DropFrame.seg) THEN Undefined(1)
       ELSE IF DropRest # {}
           THEN /\ loc' = [loc EXCEPT ![1].stack =
                              Append([@ EXCEPT ![Len(@)].index = DropAt + 1],
                                     [seg |-> Inner(DropFrame.seg, DropAt),
                                      height |-> DropFrame.height - 1,
                                      index |-> 0])]
                /\ UNCHANGED <<shared, ctl, rest, pc, out>>
           ELSE /\ buckets' = [buckets EXCEPT
                                 !.heap[Raw(DropFrame.seg)].frees = @ + 1]
                /\ loc' = [loc EXCEPT ![1].stack = Pop(@)]
                /\ pc' = [pc EXCEPT ![1] =
                            IF Len(loc[1].stack) = 1 THEN "dropped" ELSE "drop_seg"]
                /\ UNCHANGED <<nodes, head, size, count, ctl, rest, out>>

\* lines 185-204, drop_seg: the loop over the 1024 slots runs on to the next
\* slot with a non-null word and, above the leaves, calls drop_seg on it with
\* height - 1; after the last slot the segment is released
DropSeg ==
    /\ pc[1] = "drop_seg"
    /\ IF ~Valid(DropFrame.seg) THEN Undefined(1)
       ELSE IF DropFrame.height > 1 /\ DropRest # {}
           THEN /\ loc' = [loc EXCEPT ![1].stack =
                              Append([@ EXCEPT ![Len(@)].index = DropAt + 1],
                                     [seg |-> Inner(DropFrame.seg, DropAt),
                                      height |-> DropFrame.height - 1,
                                      index |-> 0])]
                /\ UNCHANGED <<shared, ctl, rest, pc, out>>
           ELSE /\ buckets' = [buckets EXCEPT
                                 !.heap[Raw(DropFrame.seg)].frees = @ + 1]
                /\ loc' = [loc EXCEPT ![1].stack = Pop(@)]
                /\ pc' = [pc EXCEPT ![1] =
                            IF Len(loc[1].stack) = 1 THEN "dropped" ELSE "drop_seg"]
                /\ UNCHANGED <<nodes, head, size, count, ctl, rest, out>>

InitGA ==
    /\ InitRest
    /\ nodes = <<>>
    /\ head = Null
    /\ buckets = [root |-> 0, heap |-> <<>>]
    /\ size = 2
    /\ count = 0
    /\ pc = [t \in Threads |-> "idle"]
    /\ op = [t \in Threads |-> NoOp]
    /\ loc = [t \in Threads |-> NoLocals]
    /\ res = [t \in Threads |-> <<"none">>]
    /\ hist = NoHist
    /\ phase \in {"ga", "ga_wide"}
    /\ opsLeft = IF phase = "ga" THEN GAOps ELSE GAWideOps

GetStep(t) == GetRoot(t) \/ GetGrow(t) \/ GetDescend(t)

NextGA ==
    \/ \E t \in Threads : GaCall(t)
    \/ \E t \in Threads : GetStep(t)
    \/ \E t \in Threads : GaUse(t)
    \/ StartDrop
    \/ DropRoot
    \/ DropSeg

SpecGA == InitGA /\ [][NextGA]_vars

(***************************************************************************)
(* Cache (hello_server/cache.rs).  Every action is one acquisition or      *)
(* release of the RwLock or of an entry's Mutex with the code that runs    *)
(* under it; the closure f is entered in one action and returns in         *)
(* another.                                                                *)
(***************************************************************************)
\* the value the closure of caller c returns for key k
Computed(c, k) == 10 * k + c

CacheGoto(c, label) == [cache EXCEPT !.pc[c] = label]

\* a call of get_or_insert_with returns v, its guards are dropped
CacheReturn(c, v, how) ==
    [cache EXCEPT !.pc[c] = "idle", !.got[c] = <<how, cache.key[c], v>>]

CacheCall(c, k) ==
    /\ phase = "cache"
    /\ cache.pc[c] = "idle"
    /\ cache.calls > 0
    /\ cache' = [cache EXCEPT !.pc[c] = "read", !.key[c] = k, !.calls = @ - 1]
    /\ UNCHANGED <<shared, pc, loc, ctl, out, pool, set>>

\* lines 43-46 and 52: inner.read() and map.get(&key)
CacheRead(c) ==
    /\ cache.pc[c] = "read"
    /\ cache.writer = 0
    /\ cache' = [cache EXCEPT
                   !.readers = @ \cup {c},
                   !.pc[c] = IF cache.key[c] \in DOMAIN cache.inner
                             THEN "read_lock" ELSE "drop_read"]
    /\ UNCHANGED <<shared, pc, loc, ctl, out, pool, set>>

\* lines 47-51: v.lock() under the read guard, clone, both guards dropped
CacheReadLock(c) ==
    /\ cache.pc[c] = "read_lock"
    /\ cache.inner[cache.key[c]].owner = 0
    /\ LET v == cache.inner[cache.key[c]].val
       IN cache' = [(IF v = None THEN CacheGoto(c, "panic_unreachable")
                                 ELSE CacheReturn(c, v[1], "read"))
                       EXCEPT !.readers = @ \ {c}]
    /\ UNCHANGED <<shared, pc, loc, ctl, out, pool, set>>

\* line 53: drop(map)
CacheDropRead(c) ==
    /\ cache.pc[c] = "drop_read"
    /\ cache' = [CacheGoto(c, "write") EXCEPT !.readers = @ \ {c}]
    /\ UNCHANGED <<shared, pc, loc, ctl, out, pool, set>>

\* lines 54-56 and 63-67: inner.write(), map.get(&key) again; a key still
\* absent gets a new entry, locked by the caller before anyone can see it
CacheWriteBlind(c) ==
    /\ cache.pc[c] = "write"
    /\ cache.readers = {} /\ cache.writer = 0
    /\ cache' = [CacheGoto(c, "drop_write") EXCEPT
                       !.writer = c,
                       !.inner = With(@, cache.key[c], [owner |-> c, val |-> None])]
    /\ UNCHANGED <<shared, pc, loc, ctl, out, pool, set>>

CacheWrite(c) ==
    /\ cache.pc[c] = "write"
    /\ cache.readers = {} /\ cache.writer = 0
    /\ cache' = IF cache.key[c] \in DOMAIN cache.inner
                THEN [CacheGoto(c, "write_lock") EXCEPT !.writer = c]
                ELSE [CacheGoto(c, "drop_write") EXCEPT
                       !.writer = c,
                       !.inner = With(@, cache.key[c], [owner |-> c, val |-> None])]
    /\ UNCHANGED <<shared, pc, loc, ctl, out, pool, set>>

\* lines 57-62: mtx.lock() under the write guard, clone, both guards dropped
CacheWriteLock(c) ==
    /\ cache.pc[c] = "write_lock"
    /\ cache.inner[cache.key[c]].owner = 0
    /\ LET v == cache.inner[cache.key[c]].val
       IN cache' = [(IF v = None THEN CacheGoto(c, "panic_unreachable")
                                 ELSE CacheReturn(c, v[1], "write"))
                       EXCEPT !.writer = 0]
    /\ UNCHANGED <<shared, pc, loc, ctl, out, pool, set>>

\* line 68: drop(map), the entry's mutex stays locked
CacheDropWrite(c) ==
    /\ cache.pc[c] = "drop_write"
    /\ cache' = [CacheGoto(c, "compute") EXCEPT !.writer = 0]
    /\ UNCHANGED <<shared, pc, loc, ctl, out, pool, set>>

\* line 69: f(key.clone()) is entered
CacheCompute(c) ==
    /\ cache.pc[c] = "compute"
    /\ cache' = [CacheGoto(c, "running") EXCEPT !.ran[cache.key[c]] = @ + 1]
    /\ UNCHANGED <<shared, pc, loc, ctl, out, pool, set>>

\* lines 69-81: f returns, the value is stored if the entry is still None,
\* the entry's mutex is unlocked
CacheFinish(c) ==
    /\ cache.pc[c] = "running"
    /\ LET k == cache.key[c]
           ff == Computed(c, k)
       IN cache' = [CacheReturn(c, ff, "computed") EXCEPT
                       !.inner[k] = [owner |-> 0,
                                     val |-> IF @.val = None THEN <<ff>> ELSE @.val]]
    /\ UNCHANGED <<shared, pc, loc, ctl, out, pool, set>>

InitCache ==
    /\ InitMap
    /\ phase = "cache"
    /\ opsLeft = 0

NextCache ==
    \/ \E c \in Callers, k \in CacheKeys : CacheCall(c, k)
    \/ \E c \in Callers : CacheRead(c) \/ CacheReadLock(c) \/ CacheDropRead(c)
    \/ \E c \in Callers : CacheWrite(c) \/ CacheWriteLock(c) \/ CacheDropWrite(c)
    \/ \E c \in Callers : CacheCompute(c) \/ CacheFinish(c)

SpecCache == InitCache /\ [][NextCache]_vars

\* the callers that hold what caller c is waiting for
CacheHolders(c) ==
    LET p == cache.pc[c]
    IN IF p = "read" THEN {cache.writer} \ {0}
       ELSE IF p = "write" THEN (cache.readers \cup {cache.writer}) \ {0}
       ELSE IF p \in {"read_lock", "write_lock"}
            THEN {cache.inner[cache.key[c]].owner} \ {0}
       ELSE {}

\* caller c cannot take a step before caller d has taken one (n: chain length)
RECURSIVE WaitsOn(_, _, _)
WaitsOn(c, d, n) ==
    /\ n > 0
    /\ \E h \in CacheHolders(c) : h = d \/ WaitsOn(h, d, n - 1)

(***************************************************************************)
(* ThreadPool (hello_server/thread_pool.rs).  Every action is one critical *)
(* section of job_count's mutex, one channel operation, or one step of a   *)
(* job's body.  In phase "pool" the clients submit PoolJobs plain jobs and  *)
(* call join; in phase "barrier" client 1 is test::thread_pool_parallel: it *)
(* submits NumWorkers jobs that meet at a Barrier of NumWorkers parties.    *)
(***************************************************************************)
\* jobs counted by start_job and not yet by finish_job
Pending ==
    Len(pool.queue)
    + Cardinality({w \in Workers : pool.wpc[w] \in {"run", "barrier", "finish"}})
    + Cardinality({c \in Clients : pool.cpc[c] = "send"})

\* lines 120-124: execute calls start_job
PoolExecuteUncounted(c) ==
    /\ pool.cpc[c] = "idle" /\ pool.drop = "alive"
    /\ \/ phase = "pool" /\ Len(pool.done) < PoolJobs
       \/ phase = "barrier" /\ c = 1 /\ Len(pool.done) < NumWorkers
    /\ pool' = [pool EXCEPT !.cpc[c] = "send", !.cjob[c] = Len(pool.done) + 1,
                            !.done = Append(@, 0)]
    /\ UNCHANGED <<shared, pc, loc, ctl, out, cache, set>>

PoolExecute(c) ==
    /\ pool.cpc[c] = "idle" /\ pool.drop = "alive"
    /\ \/ phase = "pool" /\ Len(pool.done) < PoolJobs
       \/ phase = "barrier" /\ c = 1 /\ Len(pool.done) < NumWorkers
    /\ pool' = [pool EXCEPT !.cpc[c] = "send", !.cjob[c] = Len(pool.done) + 1,
                            !.done = Append(@, 0), !.count = @ + 1]
    /\ UNCHANGED <<shared, pc, loc, ctl, out, cache, set>>

\* lines 125-132: sender.send(job), execute returns
PoolSend(c) ==
    /\ pool.cpc[c] = "send"
    /\ pool' = [pool EXCEPT !.cpc[c] = "idle", !.cjob[c] = 0,
                            !.queue = Append(@, pool.cjob[c]),
                            !.returned = @ \cup {pool.cjob[c]}]
    /\ UNCHANGED <<shared, pc, loc, ctl, out, cache, set>>

\* lines 136-137: join is called
PoolJoin(c) ==
    /\ phase = "pool"
    /\ pool.cpc[c] = "idle" /\ pool.drop = "alive" /\ pool.joins > 0
    /\ pool' = [pool EXCEPT !.cpc[c] = "wait", !.joins = @ - 1,
                            !.seen[c] = pool.returned]
    /\ UNCHANGED <<shared, pc, loc, ctl, out, cache, set>>

\* lines 57-62: wait_empty holds the mutex and tests the count; it returns
\* on 0 and otherwise releases the mutex and sleeps on empty_condvar
PoolWaitEmpty(c) ==
    /\ pool.cpc[c] = "wait"
    /\ pool' = [pool EXCEPT !.cpc[c] = IF pool.count = 0 THEN "idle" ELSE "parked"]
    /\ UNCHANGED <<shared, pc, loc, ctl, out, cache, set>>

\* line 60: Condvar::wait may return without a notification
PoolSpurious(c) ==
    /\ pool.cpc[c] = "parked"
    /\ pool' = [pool EXCEPT !.cpc[c] = "wait"]
    /\ UNCHANGED <<shared, pc, loc, ctl, out, cache, set>>

\* lines 93-99: r.recv() returns the oldest job; on an empty channel it waits
\* while the sender lives and returns Err once the sender is dropped
PoolRecvDiscard(w) ==
    /\ pool.wpc[w] = "recv"
    /\ pool.queue # <<>> \/ ~pool.open
    /\ pool' = IF pool.open
               THEN [pool EXCEPT !.wpc[w] = "run", !.wjob[w] = Head(pool.queue),
                                 !.queue = Tail(@)]
               ELSE [pool EXCEPT !.wpc[w] = "exited"]
    /\ UNCHANGED <<shared, pc, loc, ctl, out, cache, set>>

PoolRecvSerial(w) ==
    /\ pool.wpc[w] = "recv"
    /\ pool.queue # <<>> \/ ~pool.open
    /\ \A v \in Workers : pool.wpc[v] \notin {"run", "barrier"}
    /\ pool' = IF pool.queue # <<>>
               THEN [pool EXCEPT !.wpc[w] = "run", !.wjob[w] = Head(pool.queue),
                                 !.queue = Tail(@)]
               ELSE [pool EXCEPT !.wpc[w] = "exited"]
    /\ UNCHANGED <<shared, pc, loc, ctl, out, cache, set>>

PoolRecv(w) ==
    /\ pool.wpc[w] = "recv"
    /\ pool.queue # <<>> \/ ~pool.open
    /\ pool' = IF pool.queue # <<>>
               THEN [pool EXCEPT !.wpc[w] = "run", !.wjob[w] = Head(pool.queue),
                                 !.queue = Tail(@)]
               ELSE [pool EXCEPT !.wpc[w] = "exited"]
    /\ UNCHANGED <<shared, pc, loc, ctl, out, cache, set>>

\* line 96: job().  A plain job (lines 186-189) runs to its end; a barrier
\* job (lines 172-175) calls barrier.wait()
PoolRun(w) ==
    /\ pool.wpc[w] = "run"
    /\ pool' = IF phase = "barrier"
               THEN [pool EXCEPT !.wpc[w] = "barrier", !.arrived = @ + 1]
               ELSE [pool EXCEPT !.wpc[w] = "finish", !.done[pool.wjob[w]] = @ + 1]
    /\ UNCHANGED <<shared, pc, loc, ctl, out, cache, set>>

\* lines 173-174: barrier.wait() returns once NumWorkers threads have called
\* it, the job sends its done message and returns
PoolBarrier(w) ==
    /\ pool.wpc[w] = "barrier"
    /\ pool.arrived = NumWorkers
    /\ pool' = [pool EXCEPT !.wpc[w] = "finish", !.done[pool.wjob[w]] = @ + 1]
    /\ UNCHANGED <<shared, pc, loc, ctl, out, cache, set>>

\* lines 100 and 44-50: finish_job; notify_one wakes one of the threads that
\* sleep on empty_condvar, if there is one
PoolFinishJob(w) ==
    /\ pool.wpc[w] = "finish"
    /\ LET parked == {c \in Clients : pool.cpc[c] = "parked"}
           after == [pool EXCEPT !.wpc[w] = "recv", !.wjob[w] = 0, !.count = @ - 1]
       IN IF pool.count = 0
          THEN pool' = [pool EXCEPT !.wpc[w] = "panic_overflow"]
          ELSE IF pool.count = 1 /\ parked # {}
          THEN \E c \in parked : pool' = [after EXCEPT !.cpc[c] = "wait"]
          ELSE pool' = after
    /\ UNCHANGED <<shared, pc, loc, ctl, out, cache, set>>

\* lines 144-149: the owner drops the pool, the sender is dropped.  The test
\* thread_pool_parallel first receives NumWorkers done messages (177-179)
PoolDrop ==
    /\ phase \in {"pool", "barrier"}
    /\ pool.drop = "alive"
    /\ \A c \in Clients : pool.cpc[c] = "idle"
    /\ phase = "barrier" =>
          /\ Len(pool.done) = NumWorkers
          /\ \A j \in DOMAIN pool.done : pool.done[j] > 0
    /\ pool' = [pool EXCEPT !.open = FALSE, !.drop = "joining",
                            !.left = Len(pool.queue)]
    /\ UNCHANGED <<shared, pc, loc, ctl, out, cache, set>>

\* lines 22-26: the fields are dropped, workers first: each Worker's thread
\* is joined in turn
PoolJoinWorker ==
    /\ pool.drop = "joining"
    /\ pool.wpc[pool.joined + 1] = "exited"
    /\ pool' = [pool EXCEPT !.joined = @ + 1,
                            !.drop = IF pool.joined + 1 = NumWorkers
                                     THEN "dropped" ELSE "joining"]
    /\ UNCHANGED <<shared, pc, loc, ctl, out, cache, set>>

InitPool ==
    /\ InitMap
    /\ phase \in {"pool", "barrier"}
    /\ opsLeft = 0

NextPool ==
    \/ \E c \in Clients : PoolExecute(c) \/ PoolSend(c)
    \/ \E c \in Clients : PoolJoin(c) \/ PoolWaitEmpty(c) \/ PoolSpurious(c)
    \/ \E w \in Workers : PoolRecv(w) \/ PoolRun(w) \/ PoolBarrier(w) \/ PoolFinishJob(w)
    \/ PoolDrop
    \/ PoolJoinWorker

SpecPool == InitPool /\ [][NextPool]_vars

(***************************************************************************)
(* OrderedListSet (list_set.rs).  A pointer is an index into set.nodes, 0  *)
(* is null.  A cursor is the mutex it holds: 0 for head, i for the `next`  *)
(* field of node i.  Every action is one acquisition of a mutex with the   *)
(* code that follows it up to the next acquisition or the return.          *)
(***************************************************************************)
\* *self.0: the pointer the mutex held by a cursor protects
SetPtr(l) == IF l = 0 THEN set.head ELSE set.nodes[l].next

\* the set with mutex l released, or taken by thread t
SetLock(s, l, t) ==
    IF l = 0 THEN [s EXCEPT !.headlock = t] ELSE [s EXCEPT !.lock[l] = t]

\* the nodes linked from pointer p, at most n of them: their data in order
RECURSIVE SetChainFrom(_, _)
SetChainFrom(p, n) ==
    IF p = 0 \/ n = 0 THEN <<>>
    ELSE <<set.nodes[p].data>> \o SetChainFrom(set.nodes[p].next, n - 1)

\* mutant of SetCall: the head mutex is taken without waiting for its owner
SetCallBarging(t, method, k) ==
    /\ \/ phase = "set_seq" /\ t = 1
       \/ phase = "set"
    /\ set.tpc[t] = "idle"
    /\ set.ops > 0
    /\ LET isin == k \in set.ref
       IN set' = [set EXCEPT
                    !.tpc[t] = IF method = "iter" THEN "iter" ELSE "find",
                    !.call[t] = <<method, k>>,
                    !.cur[t] = 0, !.headlock = t, !.seq[t] = <<>>,
                    !.ops = @ - 1,
                    !.want[t] =
                       IF method = "contains" THEN <<"bool", isin>>
                       ELSE IF method = "insert"
                            THEN IF isin THEN <<"Err", k>> ELSE <<"Ok">>
                       ELSE IF method = "remove"
                            THEN IF isin THEN <<"Ok", k>> ELSE <<"Err">>
                       ELSE <<"iter", set.ref>>,
                    !.ref = IF method = "insert" THEN @ \cup {k}
                            ELSE IF method = "remove" THEN @ \ {k} ELSE @]
    /\ UNCHANGED <<shared, pc, loc, ctl, out, cache, pool>>

\* lines 85, 92, 108, 130: a method is called and takes the head mutex.  The
\* reference set answers the calls in the order in which they take it.  In
\* phase "set_seq" thread 1 is the only caller
SetCall(t, method, k) ==
    /\ \/ phase = "set_seq" /\ t = 1
       \/ phase = "set"
    /\ set.tpc[t] = "idle"
    /\ set.ops > 0
    /\ set.headlock = 0
    /\ LET isin == k \in set.ref
       IN set' = [set EXCEPT
                    !.tpc[t] = IF method = "iter" THEN "iter" ELSE "find",
                    !.call[t] = <<method, k>>,
                    !.cur[t] = 0, !.headlock = t, !.seq[t] = <<>>,
                    !.ops = @ - 1,
                    !.want[t] =
                       IF method = "contains" THEN <<"bool", isin>>
                       ELSE IF method = "insert"
                            THEN IF isin THEN <<"Err", k>> ELSE <<"Ok">>
                       ELSE IF method = "remove"
                            THEN IF isin THEN <<"Ok", k>> ELSE <<"Err">>
                       ELSE <<"iter", set.ref>>,
                    !.ref = IF method = "insert" THEN @ \cup {k}
                            ELSE IF method = "remove" THEN @ \ {k} ELSE @]
    /\ UNCHANGED <<shared, pc, loc, ctl, out, cache, pool>>

\* lines 41-61: one turn of the loop of Cursor::find
SetFindPast(t) ==
    /\ set.tpc[t] = "find"
    /\ LET node == SetPtr(set.cur[t])
           key == set.call[t][2]
       IN IF node = 0
          THEN set' = [set EXCEPT !.tpc[t] = "apply", !.found[t] = FALSE]
          ELSE IF set.nodes[node].freed
          THEN set' = [set EXCEPT !.tpc[t] = "use_after_free"]
          ELSE IF key = set.nodes[node].data
          THEN set' = [set EXCEPT !.tpc[t] = "apply", !.found[t] = TRUE]
          ELSE /\ set.lock[node] = 0
               /\ set' = [SetLock(SetLock(set, node, t), set.cur[t], 0)
                             EXCEPT !.cur[t] = node]
    /\ UNCHANGED <<shared, pc, loc, ctl, out, cache, pool>>

SetFind(t) ==
    /\ set.tpc[t] = "find"
    /\ LET node == SetPtr(set.cur[t])
           key == set.call[t][2]
       IN IF node = 0
          THEN set' = [set EXCEPT !.tpc[t] = "apply", !.found[t] = FALSE]
          ELSE IF set.nodes[node].freed
          THEN set' = [set EXCEPT !.tpc[t] = "use_after_free"]
          ELSE IF key < set.nodes[node].data
          THEN set' = [set EXCEPT !.tpc[t] = "apply", !.found[t] = FALSE]
          ELSE IF key = set.nodes[node].data
          THEN set' = [set EXCEPT !.tpc[t] = "apply", !.found[t] = TRUE]
          ELSE /\ set.lock[node] = 0
               /\ set' = [SetLock(SetLock(set, node, t), set.cur[t], 0)
                             EXCEPT !.cur[t] = node]
    /\ UNCHANGED <<shared, pc, loc, ctl, out, cache, pool>>

\* lines 87, 94-102, 110-119: what the method does at the cursor's position;
\* remove first takes the mutex of the node it removes; the guards are
\* dropped on return
SetApply(t) ==
    /\ set.tpc[t] = "apply"
    /\ LET method == set.call[t][1]
           key == set.call[t][2]
           l == set.cur[t]
           node == SetPtr(l)
           ret(s, r) ==
               [SetLock(s, l, 0) EXCEPT !.tpc[t] = "idle", !.res[t] = r]
           link(s, q) ==
               IF l = 0 THEN [s EXCEPT !.head = q] ELSE [s EXCEPT !.nodes[l].next = q]
       IN IF method = "contains"
          THEN set' = ret(set, <<"bool", set.found[t]>>)
          ELSE IF method = "insert"
          THEN set' =
                 IF set.found[t]
                 THEN ret(set, <<"Err", key>>)
                 ELSE ret(link([set EXCEPT
                                  !.nodes = Append(@, [data |-> key, next |-> node,
                                                       freed |-> FALSE]),
                                  !.lock = Append(@, 0)],
                               Len(set.nodes) + 1),
                          <<"Ok">>)
          ELSE IF set.found[t]
          THEN /\ set.lock[node] = 0
               /\ set' = ret(link([set EXCEPT !.nodes[node].freed = TRUE],
                                  set.nodes[node].next),
                             <<"Ok", set.nodes[node].data>>)
          ELSE set' = ret(set, <<"Err">>)
    /\ UNCHANGED <<shared, pc, loc, ctl, out, cache, pool>>

\* lines 137-158: Iter::next, called until it returns None
SetIterNext(t) ==
    /\ set.tpc[t] = "iter"
    /\ LET node == SetPtr(set.cur[t])
       IN IF node = 0
          THEN set' = [SetLock(set, set.cur[t], 0) EXCEPT
                          !.tpc[t] = "idle", !.res[t] = <<"iter", set.seq[t]>>]
          ELSE IF set.nodes[node].freed
          THEN set' = [set EXCEPT !.tpc[t] = "use_after_free"]
          ELSE /\ set.lock[node] = 0
               /\ set' = [SetLock(SetLock(set, node, t), set.cur[t], 0) EXCEPT
                             !.cur[t] = node, !.seq[t] = Append(@, set.nodes[node].data)]
    /\ UNCHANGED <<shared, pc, loc, ctl, out, cache, pool>>

InitSetSeq ==
    /\ InitMap
    /\ phase = "set_seq"
    /\ opsLeft = 0

NextSet ==
    \/ \E t \in Threads, k \in SetKeys :
          \E method \in {"contains", "insert", "remove", "iter"} : SetCall(t, method, k)
    \/ \E t \in Threads : SetFind(t) \/ SetApply(t) \/ SetIterNext(t)

SpecSetSeq == InitSetSeq /\ [][NextSet]_vars

\* the threads call the set concurrently
InitSet ==
    /\ InitMap
    /\ phase = "set"
    /\ opsLeft = 0

SpecSet == InitSet /\ [][NextSet]_vars

(***************************************************************************)
(* What the sequence holds.                                                *)
(***************************************************************************)
RECURSIVE LinkedFrom(_, _)
LinkedFrom(n, fuel) ==
    IF n = Null \/ fuel = 0 THEN {}
    ELSE {n} \cup LinkedFrom(nodes[n].next, fuel - 1)

\* the nodes linked in the sequence, from the head on
Linked == LinkedFrom(head, Len(nodes))

\* the linked, unmarked nodes that a search for key k stops at
Entries(k) == {n \in Linked : ~nodes[n].mark /\ nodes[n].key = new_index(k)}

\* the key k that a transformed key x = new_index(k) stands for
\* (reverse_bits is its own inverse, and x is odd exactly for such keys)
KeyOf(x) == reverse_bits(x) - TopBit

\* the map as lookups see it: the pairs <<key, value>> of the live entries
Contents ==
    {<<KeyOf(nodes[n].key), nodes[n].val>> :
        n \in {m \in Linked : ~nodes[m].mark /\ nodes[m].key % 2 = 1}}

\* thread t takes a step of its call
StepOf(t) == Running(t) /\ (pc'[t] # pc[t] \/ loc'[t] # loc[t])

\* a completed call, named by <<thread, position in the thread's log>>
LogOf(c) == hist.log[c[1]][c[2]]

(***************************************************************************)
(* Claims.                                                                 *)
(***************************************************************************)

\* C1: once insert(k, v) has returned Ok(()) and no delete(k) overlaps or
\* follows it, every lookup(k) that starts afterwards returns Some(v), also
\* when size has doubled since and k maps to another bucket.
C1_RoundTrip ==
    \A t \in Threads :
        ( /\ op[t].kind = "lookup"
          /\ ~Running(t)
          /\ hist.seen[t] # <<>>
          /\ op[t].key \in DOMAIN hist.ins
          /\ hist.ins[op[t].key] = hist.seen[t][1] )
        => /\ pc[t] = "idle"
           /\ res[t] = <<"Some", hist.seen[t][1].val>>

\* a lookup returned the value of an entry that was inserted under another
\* bucket count, into another bucket than the one the lookup searched
C1_Witness ==
    \E t \in Threads :
        /\ op[t].kind = "lookup" /\ pc[t] = "idle" /\ phase # "solo"
        /\ hist.seen[t] # <<>>
        /\ res[t] = <<"Some", hist.seen[t][1].val>>
        /\ LET mine == hist.log[t][Len(hist.log[t])]
           IN /\ mine.bsize > hist.seen[t][1].bsize
              /\ bucket_index(op[t].key, mine.bsize)
                    # bucket_index(op[t].key, hist.seen[t][1].bsize)


\* the calls made after the prefill are exactly insert(k, _) by thread t and
\* insert(k, _) by thread u, on a map whose prefill does not hold k
TwoInserts(t, u, k) ==
    /\ phase = "conc"
    /\ t # u
    /\ opsLeft = MaxOps - 2
    /\ op[t] = [kind |-> "insert", key |-> k, val |-> t]
    /\ op[u] = [kind |-> "insert", key |-> k, val |-> u]
    /\ k \notin DOMAIN hist.ref

\* C2: two threads insert the same absent key concurrently: once both calls
\* have returned, one returned Ok(()) and the other Err with its own value,
\* the sequence holds exactly one entry for the key and count grew by 1.
C2_NoDuplicates ==
    \A t, u \in Threads, k \in ValidKeys :
        (TwoInserts(t, u, k) /\ ~Running(t) /\ ~Running(u))
        => /\ pc[t] = "idle" /\ pc[u] = "idle"
           /\ \/ res[t] = <<"Ok">> /\ res[u] = <<"Err", u>>
              \/ res[u] = <<"Ok">> /\ res[t] = <<"Err", t>>
           /\ Cardinality(Entries(k)) = 1
           /\ Cardinality({n \in Linked : nodes[n].key = new_index(k)}) = 1
           /\ count = Cardinality(DOMAIN hist.ref) + 1

\* both calls returned, neither was made after the other had returned, and
\* their last finds observed different bucket counts
C2_Witness ==
    \E t, u \in Threads, k \in ValidKeys :
        /\ TwoInserts(t, u, k) /\ pc[t] = "idle" /\ pc[u] = "idle"
        /\ res[t] = <<"Ok">> /\ res[u] = <<"Err", u>>
        /\ hist.log[t][1].bsize # hist.log[u][1].bsize
        /\ hist.seen[t] = <<>> /\ hist.seen[u] = <<>>

\* C3: run by one thread, the map behaves as a partial function from keys
\* to values: every call on a valid key returns what the reference map
\* returns (so insert, delete, lookup, delete of one key give Ok(()), Ok(v),
\* None, Err(())), the live entries are the reference map's pairs, count is
\* the number of its keys, and only a key with the top bit set aborts.
C3_Refines ==
    /\ pc[1] \notin {"panic_unreachable", "panic_overflow"}
    /\ pc[1] = "panic_assert" => ~assert_valid_key(op[1].key)
    /\ pc[1] \in {"idle", "panic_assert"} =>
          /\ (pc[1] = "idle" /\ op[1].kind # "none") => res[1] = hist.want
          /\ Contents = {<<k, Some(hist.ref[k])>> : k \in DOMAIN hist.ref}
          /\ count = Cardinality(DOMAIN hist.ref)

\* after the prefill the thread has inserted a key, deleted it, looked it up
\* and deleted it again
C3_Witness ==
    /\ phase = "seq" /\ pc[1] = "idle"
    /\ Len(hist.log[1]) = 4
    /\ \E k \in ValidKeys, v \in {1, 2} :
          /\ \A i \in 1 .. 4 : hist.log[1][i].op.key = k
          /\ hist.log[1][1].op.kind = "insert" /\ hist.log[1][1].res = <<"Ok">>
          /\ hist.log[1][1].op.val = v
          /\ hist.log[1][2].op.kind = "delete" /\ hist.log[1][2].res = <<"Ok", v>>
          /\ hist.log[1][3].op.kind = "lookup" /\ hist.log[1][3].res = <<"None">>
          /\ hist.log[1][4].op.kind = "delete" /\ hist.log[1][4].res = <<"Err">>
          /\ hist.ref # <<>>

\* the inserts of the disjoint-insert run that have returned, as
\* <<thread, position>>
DisjDone == {c \in Threads \X (1 .. DisjOps) : c[2] <= Len(hist.log[c[1]])}

\* C4: threads insert pairwise disjoint keys into the empty map, size
\* doubling meanwhile: no call aborts, every insert returns Ok(()), every key
\* whose insert has returned has exactly one linked node, live and with the
\* value of its thread, a lookup of it returns that value, and once all
\* inserts have returned count is their number and the map holds nothing else.
C4_DisjointInserts ==
    LET all == Threads \X (1 .. DisjOps)
        live == {n \in Linked : nodes[n].key % 2 = 1}
        held == {<<KeyOf(nodes[n].key), nodes[n].val, nodes[n].mark>> : n \in live}
    IN
    /\ \A t \in Threads : pc[t] = "idle" \/ Running(t)
    /\ Cardinality(held) = Cardinality(live)
    /\ \A c \in DisjDone :
          /\ LogOf(c).op.kind = "insert" /\ LogOf(c).res = <<"Ok">>
          /\ {h \in held : h[1] = DisjKey(c[1], c[2])} =
                {<<DisjKey(c[1], c[2]), Some(DisjVal(c[1], c[2])), FALSE>>}
    /\ \A t \in Threads :
          Len(hist.log[t]) = DisjOps + 1 =>
             \E c \in DisjDone :
                /\ LogOf(<<t, DisjOps + 1>>).op.key = DisjKey(c[1], c[2])
                /\ LogOf(<<t, DisjOps + 1>>).res = <<"Some", DisjVal(c[1], c[2])>>
    /\ DisjDone = all =>
          /\ count = NumThreads * DisjOps
          /\ held = {<<DisjKey(c[1], c[2]), Some(DisjVal(c[1], c[2])), FALSE>> :
                        c \in all}

\* all calls have returned, size doubled while inserts were running (one
\* insert ran under the old size and a later one of the same thread under
\* the new), and a thread looked up a key of another thread
C4_Witness ==
    /\ phase = "disj" /\ size = 4
    /\ \A t \in Threads : Len(hist.log[t]) = DisjOps + 1
    /\ \E t \in Threads, i \in 1 .. DisjOps - 1 :
          /\ hist.log[t][i].bsize = 2 /\ hist.log[t][i + 1].bsize = 4
          /\ \E u \in Threads \ {t} :
                /\ hist.log[u][DisjOps].bsize = 2
                /\ hist.log[t][DisjOps + 1].op.key = DisjKey(u, DisjOps)

\* C5: a call with a key whose top bit is set stops at the assertion, with no
\* result and with the sequence, the slots, size and count untouched; a key
\* with the top bit clear never stops there.
C5_InvalidKeyAborts ==
    [][\A t \in Threads :
          /\ (op'[t].kind # "none" /\ op'[t].key >= TopBit)
                => (pc'[t] = "panic_assert" /\ res'[t] = <<"pending">>)
          /\ (op'[t].key < TopBit) => pc'[t] # "panic_assert"
          /\ (pc[t] # "panic_assert" /\ pc'[t] = "panic_assert")
                => UNCHANGED <<nodes, head, buckets, size, count>>]_vars

\* a call on a non-empty map has stopped at the assertion
C5_Witness ==
    \E t \in Threads :
        pc[t] = "panic_assert" /\ op[t].key >= TopBit /\ Contents # {} /\ phase = "seq"

\* C6 as stated: no step of a lookup changes the sequence, the slots, the
\* segment tree, size or count.
C6_LookupNeverMutates ==
    [][\A t \in Threads :
            (op[t].kind = "lookup" /\ StepOf(t))
               => UNCHANGED <<nodes, head, buckets, size, count>>]_vars

\* C6 amended: no step of a lookup changes size, count or the live entries
\* (keys and values); a lookup may allocate the segment, link and publish
\* sentinels and unlink entries that are already marked.
C6_LookupKeepsContents ==
    [][\A t \in Threads :
            (op[t].kind = "lookup" /\ StepOf(t))
               => /\ size' = size
                  /\ count' = count
                  /\ Contents' = Contents
                  /\ \A n \in DOMAIN nodes :
                        nodes'[n].mark = nodes[n].mark /\ nodes'[n].val = nodes[n].val]_vars

\* a lookup has linked a sentinel into a map that holds entries
C6_Witness ==
    \E t \in Threads :
        /\ op[t].kind = "lookup" /\ pc[t] = "ib_store"
        /\ Contents # {}

SizeValues == {2 * Pow2(j) : j \in 0 .. WordBits}

\* C7: size is 2 * 2^j; it changes only by the compare-and-swap of an insert
\* that then returns Ok(()), from the size that insert observed to twice
\* that, so it never decreases and inserts that observed the same size
\* double it once.
C7_SizeDoubles ==
    [][/\ size \in SizeValues /\ size' \in SizeValues
       /\ size' # size =>
            /\ size' = 2 * size
            /\ \E t \in Threads :
                  /\ op[t].kind = "insert" /\ pc[t] = "ins_resize"
                  /\ loc[t].bsize = size
                  /\ pc'[t] = "idle" /\ res'[t] = <<"Ok">>
       /\ \A t \in Threads :
            (pc[t] = "ins_resize" /\ pc'[t] = "idle" /\ loc[t].bsize # size)
               => size' = size]_vars

\* an insert is about to lose the compare-and-swap to the insert of another
\* thread that crossed the threshold under the same size
C7_Witness ==
    \E t, u \in Threads :
        /\ t # u
        /\ pc[t] = "ins_resize" /\ size = 2 * loc[t].bsize
        /\ pc[u] = "idle" /\ op[u].kind = "insert" /\ res[u] = <<"Ok">>
        /\ hist.log[u] # <<>>
        /\ hist.log[u][Len(hist.log[u])].bsize = loc[t].bsize
        /\ size > 4

\* the linked sentinels, and the bucket index a sentinel stands for
Sentinels == {n \in Linked : nodes[n].val = None}
BucketOf(n) == reverse_bits(nodes[n].key)

\* C11: the sequence never holds two sentinels of one bucket, no sentinel
\* is ever marked, and a linked sentinel stays linked.  (The sequence starts
\* empty, so it is enough to look at the steps that change the sequence.)
C11_SentinelsOnce ==
    [][(nodes' # nodes \/ head' # head) =>
          LET after == Sentinels'
          IN /\ \A n, m \in after : nodes'[n].key = nodes'[m].key => n = m
             /\ \A n \in after : ~nodes'[n].mark
             /\ Sentinels \subseteq after]_vars

\* a thread has linked the sentinel of a bucket and another thread, which
\* resolves the same bucket, is about to fail to link its own
C11_Witness ==
    \E t, u \in Threads :
        /\ t # u
        /\ pc[t] = "ib_store" /\ pc[u] = "ib_insert"
        /\ Top(loc[t].stack) = Top(loc[u].stack)
        /\ ~CasOk(loc[u].prev, loc[u].curr)
        /\ Cardinality({n \in Sentinels : BucketOf(n) = Top(loc[t].stack)}) = 1

\* the calls made after the prefill are exactly delete(k) by thread t and
\* delete(k) by thread u, on a map whose prefill holds k
TwoDeletes(t, u, k) ==
    /\ phase = "conc"
    /\ t # u
    /\ opsLeft = MaxOps - 2
    /\ op[t].kind = "delete" /\ op[t].key = k
    /\ op[u].kind = "delete" /\ op[u].key = k
    /\ k \in DOMAIN hist.ref

\* C18: two threads delete the same present key concurrently: once both
\* calls have returned, one returned Ok with the stored value and the other
\* Err(()), the key has no live entry and count went down by exactly 1.
C18_OneDeleteWins ==
    \A t, u \in Threads, k \in ValidKeys :
        (TwoDeletes(t, u, k) /\ ~Running(t) /\ ~Running(u))
        => /\ pc[t] = "idle" /\ pc[u] = "idle"
           /\ \/ res[t] = <<"Ok", hist.ref[k]>> /\ res[u] = <<"Err">>
              \/ res[u] = <<"Ok", hist.ref[k]>> /\ res[t] = <<"Err">>
           /\ Entries(k) = {}
           /\ count = Cardinality(DOMAIN hist.ref) - 1

\* both calls have returned and each ran while the other was running
C18_Witness ==
    \E t, u \in Threads, k \in ValidKeys :
        /\ TwoDeletes(t, u, k) /\ pc[t] = "idle" /\ pc[u] = "idle"
        /\ res[t] = <<"Ok", hist.ref[k]>> /\ res[u] = <<"Err">>
        /\ ~hist.clean[t] /\ ~hist.clean[u]

\* index with its highest set bit cleared
ClearTop(index) == index - Pow2(bit_num(index) - 1)

\* get_parent on every size 2 * 2^j and every 0 < index < size
ParentClearsTop ==
    \A sz \in SizeValues : \A index \in 1 .. sz - 1 :
        /\ get_parent(index, sz) = ClearTop(index)
        /\ get_parent(index, sz) < index

\* the linked nodes from node n on, in link order
RECURSIVE ChainFrom(_, _)
ChainFrom(n, fuel) ==
    IF n = Null \/ fuel = 0 THEN <<>>
    ELSE <<n>> \o ChainFrom(nodes[n].next, fuel - 1)

\* C19: get_parent(index, size) is index with its highest set bit cleared
\* for every size 2 * 2^j and 0 < index < size, so every bucket a
\* resolution recurses to is the parent of the one it came from; and
\* whenever the sentinel of a bucket i > 0 is linked, the sentinel of its
\* parent is linked before it.
C19_ParentFirst ==
    /\ ParentClearsTop
    /\ \A t \in Threads :
          Running(t) =>
             \A j \in 1 .. Len(loc[t].stack) - 1 :
                /\ loc[t].stack[j] > 0
                /\ loc[t].stack[j + 1] = ClearTop(loc[t].stack[j])
    /\ LET chain == ChainFrom(head, Len(nodes))
           at == {j \in DOMAIN chain : nodes[chain[j]].val = None}
           bucket == [j \in at |-> reverse_bits(nodes[chain[j]].key)]
       IN \A j \in at :
             bucket[j] > 0 =>
                \E i \in at : i < j /\ bucket[i] = ClearTop(bucket[j])

\* the sentinel of bucket 6 is linked, behind those of its ancestors 2 and 0
C19_Witness ==
    /\ size = 8
    /\ \E n \in Sentinels : BucketOf(n) = 6

\* the slot of bucket i in the bucket array b
SlotIn(b, i) == IF i \in DOMAIN b.slot THEN b.slot[i] ELSE Null

\* C20: when initialize_bucket(index) returns, the slot of index holds the
\* sentinel the returned cursor stands on.
C20_SlotPublished ==
    [][\A t \in Threads :
          (Running(t) /\ loc[t].stack # <<>>
             /\ Len(loc'[t].stack) < Len(loc[t].stack))
          => SlotIn(buckets', Top(loc[t].stack)) = loc'[t].curr]_vars

\* the segments a walk from `word` reaches, slots being segment pointers
\* above height 1
RECURSIVE ReachFrom(_, _)
ReachFrom(word, height) ==
    IF Raw(word) = 0 \/ Raw(word) \notin DOMAIN buckets.heap THEN {}
    ELSE {Raw(word)} \cup
         (IF height > 1
              THEN UNION {ReachFrom(Inner(word, off), height - 1) :
                             off \in DOMAIN buckets.heap[Raw(word)].inner}
              ELSE {})

Segments == {o \in DOMAIN buckets.heap : buckets.heap[o].seg}

\* C8: every get(i) returns the slot the first get(i) returned, whatever
\* the interleaving with other calls, growths of the height and lost
\* installation races; different indices have different slots; and a load
\* through the slot reads the word stored last through a slot of the index.
C8_SlotFixed ==
    /\ \A t \in Threads : pc[t] # "ub"
    /\ \A t \in Threads :
          pc[t] = "ga_use" =>
             /\ op[t].key \in DOMAIN hist.ins
             /\ <<res[t][2], res[t][3]>> = hist.ins[op[t].key]
             /\ Valid(Ptr(res[t][2], 0))
    /\ \A i, j \in DOMAIN hist.ins : hist.ins[i] = hist.ins[j] => i = j
    /\ \A t \in Threads : \A n \in DOMAIN hist.log[t] :
          hist.log[t][n].op.kind = "load" =>
             hist.log[t][n].res = <<"loaded", hist.log[t][n].want>>

\* a thread has loaded, under a higher root, the element that another thread
\* stored at the same index when the root was lower, and a third index has
\* its slot in another segment
C8_Witness ==
    /\ phase = "ga"
    /\ \E t, u \in Threads :
          /\ t # u
          /\ \E a \in DOMAIN hist.log[u], b \in DOMAIN hist.log[t] :
                /\ hist.log[u][a].op.kind = "store"
                /\ hist.log[t][b].op.kind = "load"
                /\ hist.log[t][b].op.key = hist.log[u][a].op.key
                /\ hist.log[t][b].res = <<"loaded", hist.log[u][a].res[2]>>
                /\ hist.log[t][b].bsize > hist.log[u][a].bsize
    /\ \E i, j \in DOMAIN hist.ins : hist.ins[i][1] # hist.ins[j][1]

\* C9: no object is released twice and no element is released at all;
\* while the array is in use the released segments are exactly those that
\* were never installed; when drop has returned every segment that was
\* allocated has been released once.
C9_DropReleases ==
    LET heap == buckets.heap
        reach == ReachFrom(buckets.root, Tag(buckets.root))
    IN /\ \A t \in Threads : pc[t] # "ub"
       /\ \A o \in DOMAIN heap :
             heap[o].frees <= 1 /\ (~heap[o].seg => heap[o].frees = 0)
       /\ reach \subseteq Segments
       /\ phase = "ga" =>
             \A o \in Segments : heap[o].frees = IF o \in reach THEN 0 ELSE 1
       /\ pc[1] = "dropped" => \A o \in Segments : heap[o].frees = 1

\* drop has returned on an array of height 3 that holds an element in the
\* first leaf, now below two old roots, and segments along another path
C9_Witness ==
    /\ pc[1] = "dropped"
    /\ Tag(buckets.root) = 3
    /\ <<>> \in DOMAIN hist.ref
    /\ Cardinality(ReachFrom(buckets.root, 3)) >= 5
    /\ Cardinality(Segments) > Cardinality(ReachFrom(buckets.root, 3))

\* C10: the linked entries are in strictly ascending order of transformed key.
C10_Sorted ==
    \A n \in Linked :
        nodes[n].next # Null => nodes[n].key < nodes[nodes[n].next].key

\* after a doubling, a sentinel linked on demand lies between regular entries
\* and a marked entry is still linked
C10_Witness ==
    /\ size > 2
    /\ \E n \in Linked : nodes[n].mark
    /\ \E n \in Linked :
          /\ nodes[n].val # None /\ nodes[n].next # Null
          /\ nodes[nodes[n].next].val = None
          /\ \E b \in DOMAIN buckets.slot : b >= 2 /\ buckets.slot[b] = nodes[n].next

\* C12: get_or_insert_with runs the computation at most once per key.  In
\* every state no key has had more than one closure invoked for it; a caller
\* is in or about to enter its closure only while it holds the entry's mutex
\* and the entry is still None, so no closure runs for a key that has its
\* value; no caller reaches unreachable!(); and every value a call has
\* returned is the one value computed and stored for its key.
C12_ComputedOnce ==
    /\ \A k \in CacheKeys : cache.ran[k] <= 1
    /\ \A c \in Callers :
          /\ cache.pc[c] # "panic_unreachable"
          /\ cache.pc[c] \in {"drop_write", "compute", "running"} =>
                /\ cache.inner[cache.key[c]] = [owner |-> c, val |-> None]
                /\ cache.ran[cache.key[c]] = IF cache.pc[c] = "running" THEN 1 ELSE 0
          /\ cache.got[c] # <<"none">> =>
                /\ cache.ran[cache.got[c][2]] = 1
                /\ cache.inner[cache.got[c][2]].val = <<cache.got[c][3]>>

\* three callers asked for one key at once: one computed it, one found it
\* under the write lock, one under the read lock
C12_Witness ==
    \E k \in CacheKeys : \E a, b, c \in Callers :
        /\ cache.got[a] = <<"computed", k, Computed(a, k)>>
        /\ cache.got[b] = <<"write", k, Computed(a, k)>>
        /\ cache.got[c] = <<"read", k, Computed(a, k)>>

\* C13: a call for key2 is not blocked by the computation for another key1.
\* Whenever a caller d is inside its closure, no call c for a different key
\* is waiting for a lock that is, directly or through other waiting callers,
\* held until d's closure returns.
C13_OtherKeyNotBlocked ==
    \A c, d \in Callers :
        (cache.pc[d] = "running" /\ cache.pc[c] # "idle" /\ cache.key[c] # cache.key[d])
        => ~WaitsOn(c, d, NumCallers)

\* C14: join returns only when no submitted job is queued or running.  In
\* every step the job count equals the number of jobs started and not yet
\* finished (so it is 0 only when none is pending), finish_job never
\* decrements a count of 0, and no job body runs twice; and in a step where
\* join returns, the count is 0, the channel is empty, no worker holds a job,
\* and every job whose execute had returned when join was called has run
\* exactly once.
C14_JoinWaitsForJobs ==
    [][/\ pool'.count = Pending'
       /\ \A w \in Workers : pool'.wpc[w] # "panic_overflow"
       /\ \A j \in DOMAIN pool'.done : pool'.done[j] <= 1
       /\ \A c \in Clients :
             (pool.cpc[c] = "wait" /\ pool'.cpc[c] = "idle") =>
                /\ pool.count = 0 /\ pool.queue = <<>>
                /\ \A w \in Workers : pool.wpc[w] \in {"recv", "exited"}
                /\ \A j \in pool.seen[c] : pool'.done[j] = 1]_vars

\* a client called join after every job had been submitted, slept on the
\* condition variable or not, and has returned
C14_Witness ==
    /\ phase = "pool"
    /\ \E c \in Clients :
          /\ pool.cpc[c] = "idle"
          /\ pool.seen[c] = 1 .. PoolJobs
          /\ \A j \in pool.seen[c] : pool.done[j] = 1

\* C15: dropping the pool blocks until all jobs are finished.  Once the drop
\* has begun the channel is closed; every worker joined so far has left its
\* loop; the drop is never stuck while it joins; and when it has returned the
\* channel is empty, every worker has exited and been joined, and every
\* submitted job has run exactly once.
C15_DropWaitsForJobs ==
    /\ pool.drop # "alive" => ~pool.open
    /\ \A w \in 1 .. pool.joined : pool.wpc[w] = "exited"
    /\ \A j \in DOMAIN pool.done : pool.done[j] <= 1
    /\ pool.drop = "joining" => ENABLED NextPool
    /\ pool.drop = "dropped" =>
          /\ pool.queue = <<>> /\ pool.count = 0
          /\ pool.joined = NumWorkers
          /\ \A w \in Workers : pool.wpc[w] = "exited"
          /\ \A j \in DOMAIN pool.done : pool.done[j] = 1

\* the pool was dropped with jobs still in the channel and the drop returned
C15_Witness ==
    /\ phase = "pool"
    /\ pool.drop = "dropped"
    /\ pool.left > 1
    /\ Len(pool.done) = PoolJobs

\* C16: a pool of n workers runs n barrier jobs at the same time.  In a run
\* of thread_pool_parallel no two workers hold the same job; until all n
\* jobs have reached the barrier none has passed it and every arrival is a
\* worker waiting there; and the run is never stuck before the pool is
\* dropped, which happens only after all n jobs have completed.
C16_BarrierJobsRunTogether ==
    phase = "barrier" =>
       /\ \A w, v \in Workers :
             (w # v /\ pool.wjob[w] # 0) => pool.wjob[w] # pool.wjob[v]
       /\ pool.arrived < NumWorkers =>
             /\ \A j \in DOMAIN pool.done : pool.done[j] = 0
             /\ pool.arrived = Cardinality({w \in Workers : pool.wpc[w] = "barrier"})
       /\ pool.drop # "dropped" => ENABLED NextPool
       /\ pool.drop # "alive" =>
             /\ Len(pool.done) = NumWorkers
             /\ \A j \in DOMAIN pool.done : pool.done[j] = 1

\* all n workers wait at the barrier at once
C16_Witness ==
    /\ phase = "barrier"
    /\ \A w \in Workers : pool.wpc[w] = "barrier"

\* C17: in a single-threaded run OrderedListSet behaves as a reference set.
\* Whenever the thread is between calls, the result of its last insert,
\* remove or contains is the one the reference set gave, the last iter
\* yielded exactly the linked nodes, and the linked nodes are the reference
\* set's elements in strictly ascending order.
C17_RefinesSet ==
    set.tpc[1] = "idle" =>
       LET chain == SetChainFrom(set.head, Len(set.nodes))
       IN /\ \A i \in 1 .. Len(chain) - 1 : chain[i] < chain[i + 1]
          /\ {chain[i] : i \in 1 .. Len(chain)} = set.ref
          /\ IF set.res[1][1] = "iter"
             THEN set.res[1][2] = chain
             ELSE set.res[1] = set.want[1]

\* insert(1), insert(2), insert(3), remove(2): the middle node is unlinked
C17_Witness ==
    /\ phase = "set_seq"
    /\ set.tpc[1] = "idle"
    /\ set.res[1] = <<"Ok", 2>>
    /\ set.ref = {1, 3}

\* C21: a non-empty bucket slot references the linked sentinel of its bucket
\* and never changes.  After every step that changes the slots or the
\* sequence, each non-empty slot i holds a linked node without a value whose
\* key is reverse_bits(i), and a slot that was non-empty before the step
\* holds what it held.
C21_SlotsStable ==
    [][(buckets' # buckets \/ nodes' # nodes \/ head' # head) =>
          LET after == Sentinels'
          IN \A i \in DOMAIN buckets'.slot :
                LET p == buckets'.slot[i]
                IN /\ p # Null => (p \in after /\ nodes'[p].key = reverse_bits(i))
                   /\ Slot(i) # Null => p = Slot(i)]_vars

\* a thread has read the non-empty slot of a bucket other than 0 and holds
\* the cursor made from it
C21_Witness ==
    \E t \in Threads : \E i \in DOMAIN buckets.slot :
        /\ i > 0 /\ Slot(i) # Null
        /\ pc[t] = "hm" /\ loc[t].stack = <<>>
        /\ loc[t].prev = DANGLING /\ loc[t].curr = Slot(i)

\* lines 76-77 and 121-124 on every valid key and every bucket count: the
\* sentinel key of the key's bucket against the key's transformed key
SplitOrder ==
    \A k \in 0 .. TopBit - 1 : \A j \in 1 .. WordBits - 1 :
        LET sentinel == reverse_bits(bucket_index(k, Pow2(j)))
        IN /\ sentinel < new_index(k)
           /\ sentinel % 2 = 0 /\ new_index(k) % 2 = 1
           /\ new_index(k) = new_key(k)

\* C22: the sentinel key of a key's bucket is strictly smaller than the
\* key's transformed key, and the two kinds never meet.  For every valid key
\* k and every bucket count s = 2, 4, .., 2^(WordBits-1): reverse_bits(k % s)
\* is even and smaller than the odd reverse_bits(k | top bit), which insert
\* and find compute alike; in every state a linked node has an even key
\* exactly if it is a sentinel, and a search that starts at the cursor made
\* from a bucket slot starts at a node whose key is below the key sought.
C22_SentinelBeforeKey ==
    /\ SplitOrder
    /\ \A n \in DOMAIN nodes : (nodes[n].val = None) <=> (nodes[n].key % 2 = 0)
    /\ \A t \in Threads :
          (pc[t] = "hm" /\ loc[t].stack = <<>> /\ loc[t].prev = DANGLING) =>
             /\ nodes[loc[t].curr].key =
                   reverse_bits(bucket_index(op[t].key, loc[t].bsize))
             /\ nodes[loc[t].curr].key < Target(t)

\* under 8 buckets a search for key 6 has started at the sentinel of bucket 6
\* and moved past it
C22_Witness ==
    \E t \in Threads :
        /\ pc[t] = "hm" /\ loc[t].stack = <<>> /\ loc[t].bsize = 8
        /\ op[t].key = 6
        /\ loc[t].prev \in DOMAIN nodes
        /\ nodes[loc[t].prev].val = None
        /\ nodes[loc[t].prev].key = reverse_bits(6)

\* C23: a successful insert that observed bucket count s and raised count
\* above 2s returns with size >= 2s.  In every step: an insert whose
\* fetch_add brings count above twice the size its find loaded goes on to the
\* compare-and-swap; the compare-and-swap step returns Ok(()) with size at
\* least twice the loaded size, whether it succeeded or not; and whenever
\* thread 1 is between the calls of its sequential inserts into the empty
\* map, count is the number of keys inserted and size * 2 >= count.
C23_ResizeTrigger ==
    [][/\ \A t \in Threads :
             /\ ( /\ pc[t] = "ins_count" /\ pc'[t] # "ins_count"
                  /\ count + 1 < Pow2(WordBits)
                  /\ count + 1 > 2 * loc[t].bsize ) => pc'[t] = "ins_resize"
             /\ (pc[t] = "ins_resize" /\ pc'[t] # "ins_resize") =>
                   /\ pc'[t] = "idle" /\ res'[t] = <<"Ok">>
                   /\ size' >= 2 * loc[t].bsize
       /\ (phase' = "solo" /\ pc'[1] = "idle") =>
             /\ count' = Cardinality(DOMAIN hist'.ref)
             /\ size' * 2 >= count']_vars

\* an insert crossed the threshold of the size it loaded while another
\* insert has already doubled that size
C23_Witness ==
    \E t \in Threads :
        /\ pc[t] = "ins_resize" /\ phase = "conc"
        /\ count > 2 * loc[t].bsize
        /\ size = 2 * loc[t].bsize

\* C24: the live-entry counter never wraps around.  Every step that changes
\* count moves it by exactly one as an integer (a fetch_sub never finds 0, a
\* fetch_add never finds the largest usize), and no insert fails on
\* old_count + 1.
C24_CountNeverWraps ==
    [][/\ count' # count => (count' = count + 1 \/ count' = count - 1)
       /\ \A t \in Threads : pc'[t] # "panic_overflow"]_vars

\* C25: lookup, insert and delete are lock-free.  Whatever thread 1 does,
\* also if it stops for ever in the middle of a call, every call of thread 2
\* returns once thread 2 keeps taking steps.
C25_EveryCallReturns == Running(2) ~> pc[2] = "idle"

\* the same, with a call that aborts counted as ended
C25_EveryCallEnds == Running(2) ~> ~Running(2)

\* C26: get handles every index up to 2^63 - 1 without arithmetic overflow:
\* the power of the mask fits a usize in every turn of the descent, and no
\* call of get fails.
C26_GetNoOverflow ==
    \A t \in Threads :
       /\ pc[t] # "panic_overflow"
       /\ pc[t] = "ga_descend" => ~pow_overflows(loc[t].root_height)

\* C27: no caller of join stays blocked while the job count is 0: a client
\* that sleeps on empty_condvar, with no notification on its way, sleeps
\* under a job count above 0, however many clients wait at the same time.
C27_JoinReleased ==
    \A c \in Clients : pool.cpc[c] = "parked" => pool.count > 0

\* C28: under concurrent calls of insert, remove, contains and iter every
\* thread inside a call holds exactly the mutex of its position, no two
\* threads hold the same one, and some thread inside a call can always take
\* its next step (the locks are taken in list order, so no thread waits in a
\* cycle); no thread reads a released node; every result is the result of the
\* call in the sequential order in which the calls took the head mutex; the
\* list is strictly ascending in every state and holds the reference set's
\* keys when no call is running.
C28_ConcurrentSet ==
    LET chain == SetChainFrom(set.head, Len(set.nodes))
        inside == {t \in Threads : set.tpc[t] # "idle"}
        ascending(q) == \A i \in 1 .. Len(q) - 1 : q[i] < q[i + 1]
    IN /\ \A t \in Threads : set.tpc[t] # "use_after_free"
       /\ ascending(chain)
       /\ Len(chain) = Cardinality({i \in DOMAIN set.nodes : ~set.nodes[i].freed})
       /\ set.headlock # 0 => set.headlock \in inside /\ set.cur[set.headlock] = 0
       /\ \A i \in DOMAIN set.lock :
             set.lock[i] # 0 =>
                /\ set.lock[i] \in inside /\ set.cur[set.lock[i]] = i
                /\ ~set.nodes[i].freed
       /\ \A t \in inside :
             IF set.cur[t] = 0 THEN set.headlock = t ELSE set.lock[set.cur[t]] = t
       /\ inside # {} =>
             \E t \in inside : ENABLED (SetFind(t) \/ SetApply(t) \/ SetIterNext(t))
       /\ \A t \in Threads :
             set.tpc[t] = "idle" /\ set.res[t] # <<"none">> =>
                IF set.res[t][1] = "iter"
                THEN /\ ascending(set.res[t][2])
                     /\ {set.res[t][2][i] : i \in DOMAIN set.res[t][2]} = set.want[t][2]
                ELSE set.res[t] = set.want[t]
       /\ inside = {} => {chain[i] : i \in DOMAIN chain} = set.ref

\* two threads are inside insert(k) of the same absent key k at the same
\* time: thread 2 holds the mutex of the last node, thread 1 holds the one
\* before it and waits for thread 2
C28_Witness ==
    /\ phase = "set"
    /\ set.call[1] = set.call[2] /\ set.call[1][1] = "insert"
    /\ set.call[1][2] \notin set.ref \ {set.call[1][2]}
    /\ set.tpc[1] = "find" /\ set.tpc[2] = "find"
    /\ set.cur[2] # 0 /\ SetPtr(set.cur[1]) = set.cur[2]
    /\ set.nodes[set.cur[2]].data < set.call[1][2]
    /\ ~ENABLED SetFind(1)
    /\ set.want[2] = <<"Ok">> /\ set.want[1] = <<"Err", set.call[1][2]>>

====
